---------------------------- MODULE Spec2Model ----------------------------
(***************************************************************************)
(* A model of Ensync's block transfer (block_xfer.rs), of its server key   *)
(* management (server/keymgmt.rs over server/crypt.rs), of the ciphers of  *)
(* server/crypt.rs and of read_passphrase (cli/config.rs).                 *)
(*                                                                         *)
(* Specifications:                                                         *)
(*   SpecBlock   stream_to_blocks followed by blocks_to_stream             *)
(*   SpecTamper  the same, the BlockList or the store altered in between   *)
(*   Spec        the key-management operations, one client                 *)
(*   SpecEdit    the same over lists of several entries and groups         *)
(*   SpecDerive  try_derive_key over any passphrase                        *)
(*   SpecTx      the do_tx retry loop over any closure and storage         *)
(*   SpecTxCalls the storage calls of the closures within do_tx            *)
(*   SpecConc    two clients editing the KDF list of one storage           *)
(*   SpecVer     encrypt_dir_ver followed by decrypt_dir_ver               *)
(*   SpecGarbage decrypt_dir_ver on any HashId                             *)
(*   SpecObj     encrypt_obj followed by decrypt_obj                       *)
(*   SpecDir     encrypt_whole_dir, appends, decrypt_whole_dir             *)
(*   SpecPass    read_passphrase on any value read                         *)
(***************************************************************************)
EXTENDS Integers, Sequences, FiniteSets, TLC

VARIABLES
    \* ---- block_xfer.rs: stream_to_blocks ----
    source,      \* the whole byte sequence the reader will deliver
    rest,        \* the bytes of `input` not read yet
    block_size,  \* block_size argument
    secret,      \* secret argument
    block_data,  \* the block buffer, allocated once and reused
    off,         \* fill offset into block_data
    blocks,      \* Vec<HashId> pushed so far
    size,        \* bytes counted so far
    total_kc,    \* running Keccak context over the block hashes
    read_kinds,  \* how input.read has answered so far: "Fragment", "Interrupted"
    sunk,        \* the calls block_out has received, in order
    store,       \* what the caller stored: hash -> bytes as received
    s2b_pc,      \* "fill" | "emit" | "done"
    s2b_res,     \* "none" | "Ok" | "Io" | an error of the sink
    \* ---- block_xfer.rs: blocks_to_stream ----
    blocklist,   \* the BlockList handed to blocks_to_stream
    b2s_pc,      \* "idle" | "check" | "fetch" | "read" | "done"
    b2s_res,     \* "none" | "Ok" | "InvalidHmac" | "Io"
    idx,         \* index into blocklist.blocks of the block being streamed
    reader,      \* unread bytes of the reader block_fetch returned
    kc,          \* Keccak context of the block being streamed
    output,      \* bytes written to `output`
    \* ---- server/keymgmt.rs over the Storage contract ----
    kdf_dir,     \* the stored directory DIRID_KEYS: None or Some([ver, data])
    last,        \* the last operation called, with what it returned
    nops,        \* the number of operations called so far
    \* ---- server/keymgmt.rs: do_tx, one run of the loop ----
    tx_pc,       \* "off" | "start_tx" | "f" | "commit" | "abort" | "done"
    tx_i,        \* the number of attempts completed (the `for` counter)
    tx_f,        \* what f(tx) returned in this attempt: [res, r]
    tx_calls,    \* the Storage calls made, in order, with their outcome
    tx_res,      \* what do_tx returned: None or Some([res, r])
    \* ---- two clients on one storage ----
    client,      \* per client: its operation and its place in do_tx
    \* ---- a function called on its own ----
    fn_args,     \* the arguments drawn for the call
    fn_ret       \* None, or Some(what the function returned)

blockVars == <<source, rest, block_size, secret, block_data, off, blocks,
               size, total_kc, read_kinds, sunk, store, s2b_pc, s2b_res, blocklist,
               b2s_pc, b2s_res, idx, reader, kc, output>>

kmVars == <<kdf_dir, last, nops>>

txVars == <<tx_pc, tx_i, tx_f, tx_calls, tx_res>>

fnVars == <<fn_args, fn_ret>>

nonBlockVars == <<kmVars, txVars, client, fnVars>>

vars == <<blockVars, kmVars, txVars, client, fnVars>>

None == <<>>
Some(x) == <<x>>

NoCall == [op |-> [op |-> "none"], res |-> "none", ret |-> None,
           calls |-> <<>>]

Clients == {1, 2}

\* the key-management variables of a storage nothing has been called on
KmIdle ==
    /\ kdf_dir = None
    /\ last = NoCall
    /\ nops = 0

\* do_tx not running
TxIdle ==
    /\ tx_pc = "off"
    /\ tx_i = 0
    /\ tx_f = None
    /\ tx_calls = <<>>
    /\ tx_res = None

\* no client running
ConcIdle == client = [c \in Clients |-> [pc |-> "off"]]

\* no function called on its own
FnIdle ==
    /\ fn_args = None
    /\ fn_ret = None

----------------------------------------------------------------------------
(* Bounds of the block-transfer model *)

MaxLen == 4
MaxBlockSize == 3

Byte == {0, 1}
Secrets == {<<7>>, <<7, 8>>}

BUF_SIZE == 4096

Min(a, b) == IF a < b THEN a ELSE b

RECURSIVE SeqsUpTo(_, _)
SeqsUpTo(S, n) ==
    IF n = 0 THEN {<<>>}
    ELSE LET shorter == SeqsUpTo(S, n - 1)
         IN  shorter \cup {Append(s, x) : s \in {t \in shorter : Len(t) = n - 1}, x \in S}

----------------------------------------------------------------------------
(* Keccak (SHA-3-256), taken to be collision free: the digest of a context *)
(* is the concatenation of everything it was updated with.  A HashId fed   *)
(* to an update is one element of that concatenation.                      *)

Keccak_new == <<>>
Keccak_update(ctx, data) == ctx \o data
Keccak_finalize(ctx) == [sha3 |-> ctx]

\* The "HMAC" of block_xfer.rs: SHA-3 of the secret followed by the data.
Hmac(sec, data) == Keccak_finalize(Keccak_update(Keccak_update(Keccak_new, sec), data))

\* block_data[off..] overwritten by the nread bytes read
FillBuffer(buf, o, bytes) ==
    [i \in 1..Len(buf) |->
        IF i > o /\ i <= o + Len(bytes) THEN bytes[i - o] ELSE buf[i]]

\* The slice handed to block_out for a block of `o` bytes.
block_out_arg(buf, o) == buf

\* a variant hashing the whole buffer
block_hash_arg_WholeBuffer(buf, o) == buf

\* The slice hashed for a block of `o` bytes.
block_hash_arg(buf, o) == SubSeq(buf, 1, o)

StorePut(st, h, data) ==
    [x \in DOMAIN st \cup {h} |-> IF x = h THEN data ELSE st[x]]

NoBlockList == [total |-> <<>>, blocks |-> <<>>, size |-> 0]

----------------------------------------------------------------------------
(* stream_to_blocks *)

InitBlock ==
    /\ source \in SeqsUpTo(Byte, MaxLen)
    /\ rest = source
    /\ block_size \in 1..MaxBlockSize
    /\ secret \in Secrets
    /\ block_data = [i \in 1..block_size |-> 0]
    /\ off = 0
    /\ blocks = <<>>
    /\ size = 0
    /\ total_kc = Keccak_update(Keccak_new, secret)
    /\ read_kinds = {}
    /\ sunk = <<>>
    /\ store = << >>
    /\ s2b_pc = "fill"
    /\ s2b_res = "none"
    /\ blocklist = NoBlockList
    /\ b2s_pc = "idle"
    /\ b2s_res = "none"
    /\ idx = 0
    /\ reader = <<>>
    /\ kc = Keccak_new
    /\ output = <<>>
    /\ KmIdle
    /\ TxIdle
    /\ ConcIdle
    /\ FnIdle

b2sVars == <<blocklist, b2s_pc, b2s_res, idx, reader, kc, output>>

\* input.read returns Ok(nread), nread > 0: any non-empty short read
S2bRead ==
    /\ s2b_pc = "fill"
    /\ off < block_size
    /\ rest # <<>>
    /\ \E nread \in 1..Min(block_size - off, Len(rest)) :
          /\ block_data' = FillBuffer(block_data, off, SubSeq(rest, 1, nread))
          /\ rest' = SubSeq(rest, nread + 1, Len(rest))
          /\ off' = off + nread
          /\ s2b_pc' = IF off + nread < block_size THEN "fill" ELSE "emit"
          /\ read_kinds' = IF nread < Min(block_size - off, Len(rest))
                           THEN read_kinds \cup {"Fragment"}
                           ELSE read_kinds
    /\ UNCHANGED <<source, block_size, secret, blocks, size, total_kc, sunk,
                   store, s2b_res>>
    /\ UNCHANGED b2sVars
    /\ UNCHANGED nonBlockVars

\* a variant of S2bInterrupted that takes the interruption for the end of
\* the input
S2bInterrupted_EndsInput ==
    /\ s2b_pc = "fill"
    /\ off < block_size
    /\ read_kinds' = read_kinds \cup {"Interrupted"}
    /\ IF off = 0
       THEN /\ s2b_pc' = "done"
            /\ s2b_res' = "Ok"
            /\ blocklist' = [total  |-> Keccak_finalize(total_kc),
                             blocks |-> blocks,
                             size   |-> size]
       ELSE /\ s2b_pc' = "emit"
            /\ UNCHANGED <<s2b_res, blocklist>>
    /\ UNCHANGED <<source, rest, block_size, secret, block_data, off, blocks,
                   size, total_kc, sunk, store>>
    /\ UNCHANGED <<b2s_pc, b2s_res, idx, reader, kc, output>>
    /\ UNCHANGED nonBlockVars

\* input.read returns Err(Interrupted): retried without advancing
S2bInterrupted ==
    /\ s2b_pc = "fill"
    /\ off < block_size
    /\ read_kinds' = read_kinds \cup {"Interrupted"}
    /\ UNCHANGED <<source, rest, block_size, secret, block_data, off, blocks,
                   size, total_kc, sunk, store, s2b_pc, s2b_res>>
    /\ UNCHANGED b2sVars
    /\ UNCHANGED nonBlockVars

\* input.read returns another error: returned as an I/O error
S2bReadError ==
    /\ s2b_pc = "fill"
    /\ off < block_size
    /\ s2b_pc' = "done"
    /\ s2b_res' = "Io"
    /\ UNCHANGED <<source, rest, block_size, secret, block_data, off, blocks,
                   size, total_kc, read_kinds, sunk, store>>
    /\ UNCHANGED b2sVars
    /\ UNCHANGED nonBlockVars

\* a variant of S2bEof that takes an empty block for the end of the input
\* only after some block was emitted
S2bEof_EmitsEmptyBlock ==
    /\ s2b_pc = "fill"
    /\ off < block_size
    /\ rest = <<>>
    /\ IF off = 0 /\ blocks # <<>>
       THEN /\ s2b_pc' = "done"
            /\ s2b_res' = "Ok"
            /\ blocklist' = [total  |-> Keccak_finalize(total_kc),
                             blocks |-> blocks,
                             size   |-> size]
       ELSE /\ s2b_pc' = "emit"
            /\ UNCHANGED <<s2b_res, blocklist>>
    /\ UNCHANGED <<source, rest, block_size, secret, block_data, off, blocks,
                   size, total_kc, read_kinds, sunk, store>>
    /\ UNCHANGED <<b2s_pc, b2s_res, idx, reader, kc, output>>
    /\ UNCHANGED nonBlockVars

\* input.read returns Ok(0): the fill loop breaks; an empty block ends the
\* outer loop and the BlockList is returned
S2bEof ==
    /\ s2b_pc = "fill"
    /\ off < block_size
    /\ rest = <<>>
    /\ IF off = 0
       THEN /\ s2b_pc' = "done"
            /\ s2b_res' = "Ok"
            /\ blocklist' = [total  |-> Keccak_finalize(total_kc),
                             blocks |-> blocks,
                             size   |-> size]
       ELSE /\ s2b_pc' = "emit"
            /\ UNCHANGED <<s2b_res, blocklist>>
    /\ UNCHANGED <<source, rest, block_size, secret, block_data, off, blocks,
                   size, total_kc, read_kinds, sunk, store>>
    /\ UNCHANGED <<b2s_pc, b2s_res, idx, reader, kc, output>>
    /\ UNCHANGED nonBlockVars

\* the block is hashed and handed to block_out, which accepts it; the
\* caller stores what it received under the hash it received
S2bEmit ==
    /\ s2b_pc = "emit"
    /\ LET hash == Hmac(secret, block_hash_arg(block_data, off))
           data == block_out_arg(block_data, off)
       IN  /\ sunk' = Append(sunk, [hash |-> hash, data |-> data])
           /\ store' = StorePut(store, hash, data)
           /\ total_kc' = Keccak_update(total_kc, <<hash>>)
           /\ blocks' = Append(blocks, hash)
           /\ size' = size + off
    /\ off' = 0
    /\ s2b_pc' = "fill"
    /\ UNCHANGED <<source, rest, block_size, secret, block_data, s2b_res,
                   read_kinds>>
    /\ UNCHANGED b2sVars
    /\ UNCHANGED nonBlockVars

\* the errors block_out may return
SinkErrors == {"PermissionDenied", "Other"}

\* a variant of S2bSinkError that drops the error and the block and reads on
S2bSinkError_ReadsOn ==
    /\ s2b_pc = "emit"
    /\ \E err \in SinkErrors :
          LET hash == Hmac(secret, block_hash_arg(block_data, off))
              data == block_out_arg(block_data, off)
          IN  sunk' = Append(sunk, [hash |-> hash, data |-> data, err |-> err])
    /\ s2b_pc' = "fill"
    /\ off' = 0
    /\ UNCHANGED <<source, rest, block_size, secret, block_data, blocks,
                   size, total_kc, read_kinds, store, s2b_res>>
    /\ UNCHANGED b2sVars
    /\ UNCHANGED nonBlockVars

\* block_out returns an error: try! returns it at once
S2bSinkError ==
    /\ s2b_pc = "emit"
    /\ \E err \in SinkErrors :
          LET hash == Hmac(secret, block_hash_arg(block_data, off))
              data == block_out_arg(block_data, off)
          IN  /\ sunk' = Append(sunk, [hash |-> hash, data |-> data,
                                       err |-> err])
              /\ s2b_res' = err
    /\ s2b_pc' = "done"
    /\ UNCHANGED <<source, rest, block_size, secret, block_data, off, blocks,
                   size, total_kc, read_kinds, store>>
    /\ UNCHANGED b2sVars
    /\ UNCHANGED nonBlockVars

----------------------------------------------------------------------------
(* blocks_to_stream, run on the BlockList stream_to_blocks returned, with  *)
(* block_fetch reading the caller's store                                  *)

s2bVars == <<source, rest, block_size, secret, block_data, off, blocks,
             size, total_kc, read_kinds, sunk, store, s2b_pc, s2b_res>>

RECURSIVE UpdateAll(_, _)
UpdateAll(ctx, hs) ==
    IF hs = <<>> THEN ctx
    ELSE UpdateAll(Keccak_update(ctx, <<Head(hs)>>), Tail(hs))

\* the hash recomputed over input.blocks
TotalOf(sec, hs) == Keccak_finalize(UpdateAll(Keccak_update(Keccak_new, sec), hs))

B2sStart ==
    /\ s2b_pc = "done"
    /\ s2b_res = "Ok"
    /\ b2s_pc = "idle"
    /\ b2s_pc' = "check"
    /\ UNCHANGED <<blocklist, b2s_res, idx, reader, kc, output>>
    /\ UNCHANGED s2bVars
    /\ UNCHANGED nonBlockVars

\* a variant without the sanity check: the loop is entered at once
B2sCheck_NoSanityCheck ==
    /\ b2s_pc = "check"
    /\ b2s_pc' = "fetch"
    /\ idx' = 1
    /\ UNCHANGED <<blocklist, b2s_res, reader, kc, output>>
    /\ UNCHANGED s2bVars
    /\ UNCHANGED nonBlockVars

\* Sanity check the BlockList
B2sCheck ==
    /\ b2s_pc = "check"
    /\ IF TotalOf(secret, blocklist.blocks) # blocklist.total
       THEN /\ b2s_pc' = "done"
            /\ b2s_res' = "InvalidHmac"
            /\ UNCHANGED idx
       ELSE /\ b2s_pc' = "fetch"
            /\ idx' = 1
            /\ UNCHANGED b2s_res
    /\ UNCHANGED <<blocklist, reader, kc, output>>
    /\ UNCHANGED s2bVars
    /\ UNCHANGED nonBlockVars

\* a variant of B2sFetch that verifies the fetched block before streaming it
B2sFetch_VerifiesBeforeStreaming ==
    /\ b2s_pc = "fetch"
    /\ IF idx > Len(blocklist.blocks)
       THEN /\ b2s_pc' = "done"
            /\ b2s_res' = "Ok"
            /\ UNCHANGED <<reader, kc>>
       ELSE IF blocklist.blocks[idx] \notin DOMAIN store
       THEN /\ b2s_pc' = "done"
            /\ b2s_res' = "Io"
            /\ UNCHANGED <<reader, kc>>
       ELSE IF Hmac(secret, store[blocklist.blocks[idx]]) # blocklist.blocks[idx]
       THEN /\ b2s_pc' = "done"
            /\ b2s_res' = "InvalidHmac"
            /\ UNCHANGED <<reader, kc>>
       ELSE /\ reader' = store[blocklist.blocks[idx]]
            /\ kc' = Keccak_update(Keccak_new, secret)
            /\ b2s_pc' = "read"
            /\ UNCHANGED b2s_res
    /\ UNCHANGED <<blocklist, idx, output>>
    /\ UNCHANGED s2bVars
    /\ UNCHANGED nonBlockVars

\* the for loop: past the last block the call returns Ok; otherwise
\* block_fetch opens a reader on the stored block
B2sFetch ==
    /\ b2s_pc = "fetch"
    /\ IF idx > Len(blocklist.blocks)
       THEN /\ b2s_pc' = "done"
            /\ b2s_res' = "Ok"
            /\ UNCHANGED <<reader, kc>>
       ELSE IF blocklist.blocks[idx] \in DOMAIN store
       THEN /\ reader' = store[blocklist.blocks[idx]]
            /\ kc' = Keccak_update(Keccak_new, secret)
            /\ b2s_pc' = "read"
            /\ UNCHANGED b2s_res
       ELSE /\ b2s_pc' = "done"
            /\ b2s_res' = "Io"
            /\ UNCHANGED <<reader, kc>>
    /\ UNCHANGED <<blocklist, idx, output>>
    /\ UNCHANGED s2bVars
    /\ UNCHANGED nonBlockVars

\* block_fetch itself fails
B2sFetchError ==
    /\ b2s_pc = "fetch"
    /\ idx <= Len(blocklist.blocks)
    /\ b2s_pc' = "done"
    /\ b2s_res' = "Io"
    /\ UNCHANGED <<blocklist, idx, reader, kc, output>>
    /\ UNCHANGED s2bVars
    /\ UNCHANGED nonBlockVars

\* reader.read returns Ok(nread), nread > 0, and write_all succeeds
B2sRead ==
    /\ b2s_pc = "read"
    /\ reader # <<>>
    /\ \E nread \in 1..Min(BUF_SIZE, Len(reader)) :
          /\ kc' = Keccak_update(kc, SubSeq(reader, 1, nread))
          /\ output' = output \o SubSeq(reader, 1, nread)
          /\ reader' = SubSeq(reader, nread + 1, Len(reader))
    /\ UNCHANGED <<blocklist, b2s_pc, b2s_res, idx>>
    /\ UNCHANGED s2bVars
    /\ UNCHANGED nonBlockVars

\* reader.read returns Err(Interrupted)
B2sInterrupted ==
    /\ b2s_pc = "read"
    /\ UNCHANGED vars

\* reader.read or output.write_all fails
B2sIoError ==
    /\ b2s_pc = "read"
    /\ b2s_pc' = "done"
    /\ b2s_res' = "Io"
    /\ UNCHANGED <<blocklist, idx, reader, kc, output>>
    /\ UNCHANGED s2bVars
    /\ UNCHANGED nonBlockVars

\* reader.read returns Ok(0): the block's hash is verified
B2sVerify ==
    /\ b2s_pc = "read"
    /\ reader = <<>>
    /\ IF Keccak_finalize(kc) # blocklist.blocks[idx]
       THEN /\ b2s_pc' = "done"
            /\ b2s_res' = "InvalidHmac"
            /\ UNCHANGED idx
       ELSE /\ b2s_pc' = "fetch"
            /\ idx' = idx + 1
            /\ UNCHANGED b2s_res
    /\ UNCHANGED <<blocklist, reader, kc, output>>
    /\ UNCHANGED s2bVars
    /\ UNCHANGED nonBlockVars

NextBlock ==
    \/ S2bRead
    \/ S2bInterrupted
    \/ S2bReadError
    \/ S2bEof
    \/ S2bEmit
    \/ S2bSinkError
    \/ B2sStart
    \/ B2sCheck
    \/ B2sFetch
    \/ B2sFetchError
    \/ B2sRead
    \/ B2sInterrupted
    \/ B2sIoError
    \/ B2sVerify

SpecBlock == InitBlock /\ [][NextBlock]_vars

----------------------------------------------------------------------------
(* blocks_to_stream on altered input: between the two calls the BlockList  *)
(* handed to blocks_to_stream (`input`) or the blocks its block_fetch      *)
(* reads are altered once.  `blocks`, `total_kc` and `sunk` keep what      *)
(* stream_to_blocks produced.                                              *)

\* what the caller stored: every block the sink received, under its hash
RECURSIVE StoreOf(_)
StoreOf(calls) ==
    IF calls = <<>> THEN <<>>
    ELSE StorePut(StoreOf(SubSeq(calls, 1, Len(calls) - 1)),
                  calls[Len(calls)].hash, calls[Len(calls)].data)

\* the BlockList stream_to_blocks returned
ReturnedBlockList ==
    [total |-> Keccak_finalize(total_kc), blocks |-> blocks, size |-> size]

Tampered == blocklist # ReturnedBlockList \/ store # StoreOf(sunk)

BetweenCalls ==
    /\ s2b_pc = "done"
    /\ s2b_res = "Ok"
    /\ b2s_pc = "idle"
    /\ ~Tampered

\* the content of one stored block is changed
TamperBlockContent ==
    /\ BetweenCalls
    /\ \E h \in DOMAIN store :
          \E data \in SeqsUpTo(Byte, block_size) \ {store[h]} :
             store' = StorePut(store, h, data)
    /\ UNCHANGED <<source, rest, block_size, secret, block_data, off, blocks,
                   size, total_kc, read_kinds, sunk, s2b_pc, s2b_res>>
    /\ UNCHANGED b2sVars
    /\ UNCHANGED nonBlockVars

\* one member of input.blocks is changed to another HashId
TamperHashId ==
    /\ BetweenCalls
    /\ \E i \in 1..Len(blocklist.blocks) :
          \E data \in SeqsUpTo(Byte, block_size) :
             /\ Hmac(secret, data) # blocklist.blocks[i]
             /\ blocklist' = [blocklist EXCEPT !.blocks[i] = Hmac(secret, data)]
    /\ UNCHANGED <<b2s_pc, b2s_res, idx, reader, kc, output>>
    /\ UNCHANGED s2bVars
    /\ UNCHANGED nonBlockVars

\* input.blocks is reordered into a different sequence
TamperOrder ==
    /\ BetweenCalls
    /\ \E p \in Permutations(1..Len(blocklist.blocks)) :
          LET reordered == [i \in 1..Len(blocklist.blocks) |-> blocklist.blocks[p[i]]]
          IN  /\ reordered # blocklist.blocks
              /\ blocklist' = [blocklist EXCEPT !.blocks = reordered]
    /\ UNCHANGED <<b2s_pc, b2s_res, idx, reader, kc, output>>
    /\ UNCHANGED s2bVars
    /\ UNCHANGED nonBlockVars

\* input.total is changed
TamperTotal ==
    /\ BetweenCalls
    /\ \E t \in {Keccak_finalize(Keccak_new), Hmac(secret, <<>>)} \ {blocklist.total} :
          blocklist' = [blocklist EXCEPT !.total = t]
    /\ UNCHANGED <<b2s_pc, b2s_res, idx, reader, kc, output>>
    /\ UNCHANGED s2bVars
    /\ UNCHANGED nonBlockVars

NextTamper ==
    \/ NextBlock
    \/ TamperBlockContent
    \/ TamperHashId
    \/ TamperOrder
    \/ TamperTotal

SpecTamper == InitBlock /\ [][NextTamper]_vars

----------------------------------------------------------------------------
(* server/crypt.rs: the key-derivation primitives.                         *)
(*                                                                         *)
(* A 32-byte value is modelled as a finite set of atoms and XOR as the     *)
(* symmetric difference, so that hixor is exactly an XOR: associative,     *)
(* commutative, self-inverse.  scrypt and SHA-3 are taken collision free.  *)
(* Values the code draws at random (salts, internal keys, directory        *)
(* versions) are drawn fresh: the least number no live value uses.         *)

GROUP_EVERYONE == "everyone"
GROUP_ROOT == "root"
SCRYPT_18_8_1 == "scrypt-18-8-1"

Names == {"a", "b"}
\* BTreeMap<String, _> iterates in key order
NameOrder == <<"a", "b", "c">>
Passphrases == {"hunter2", "hunter3"}
Groups == {GROUP_EVERYONE, GROUP_ROOT, "group"}
\* BTreeMap<String, _> iterates in key order
GroupOrder == <<GROUP_EVERYONE, "group", GROUP_ROOT>>

\* the operations one run calls
MaxOps == 3

\* longest list of group names an operation is called with
MaxGroupArgs == 2

MinFresh(used) ==
    CHOOSE n \in 0..Cardinality(used) :
        n \notin used /\ \A m \in 0..(n - 1) : m \in used

scrypt_18_8_1(passphrase, salt) == {<<"scrypt", passphrase, salt>>}

sha3(data) == [sha3 |-> data]

hixor(a, b) == (a \ b) \cup (b \ a)

\* InternalKey::generate_new(): the n-th key drawn
InternalKey(n) == {<<"key", n>>}

\* KeyChain::generate_new(): fresh keys for the two built-in groups
KeyChain_generate_new(k1, k2) ==
    [g \in {GROUP_EVERYONE, GROUP_ROOT} |->
        IF g = GROUP_EVERYONE THEN InternalKey(k1) ELSE InternalKey(k2)]

KeyChain_empty == << >>

MapPut(f, k, v) == [x \in DOMAIN f \cup {k} |-> IF x = k THEN v ELSE f[x]]
MapRemove(f, k) == [x \in DOMAIN f \ {k} |-> f[x]]

\* create_key: one wrap (the XOR with the derived key) per group of the chain
create_key(passphrase, key_chain, created, updated, used, salt) ==
    LET derived == scrypt_18_8_1(passphrase, salt)
    IN  [created   |-> created,
         updated   |-> updated,
         used      |-> used,
         algorithm |-> SCRYPT_18_8_1,
         salt      |-> salt,
         hash      |-> sha3(derived),
         groups    |-> [g \in DOMAIN key_chain |-> hixor(derived, key_chain[g])]]

\* try_derive_key_single: None, or Some(key chain) unwrapped from the entry
try_derive_key_single(passphrase, entry) ==
    IF entry.algorithm # SCRYPT_18_8_1 THEN None
    ELSE LET derived == scrypt_18_8_1(passphrase, entry.salt)
         IN  IF sha3(derived) = entry.hash
             THEN Some([g \in DOMAIN entry.groups |->
                           hixor(derived, entry.groups[g])])
             ELSE None

\* the names of `keys` whose entry the passphrase derives, in map order
Matching(passphrase, keys) ==
    SelectSeq(NameOrder,
              LAMBDA n : n \in DOMAIN keys
                         /\ try_derive_key_single(passphrase, keys[n]) # None)

\* a variant returning the last entry, in map order, that matches
try_derive_key_LastMatch(passphrase, keys) ==
    LET m == Matching(passphrase, keys)
    IN  IF m = <<>> THEN None
        ELSE try_derive_key_single(passphrase, keys[m[Len(m)]])

\* try_derive_key: the first entry, in map order, that matches
try_derive_key(passphrase, keys) ==
    LET m == Matching(passphrase, keys)
    IN  IF m = <<>> THEN None
        ELSE try_derive_key_single(passphrase, keys[m[1]])

\* reassoc_keys: the entry rewrapped for the chain's groups under the
\* entry's own derived key (that of the passphrase which matched it)
reassoc_keys(entry, passphrase, key_chain) ==
    LET derived == scrypt_18_8_1(passphrase, entry.salt)
    IN  [entry EXCEPT !.groups =
            [g \in DOMAIN key_chain |-> hixor(derived, key_chain[g])]]

UsedSalts(keys) == {keys[n].salt : n \in DOMAIN keys}

\* the atoms of every wrap stored in `keys`
WrapAtoms(keys) ==
    UNION {UNION {keys[n].groups[g] : g \in DOMAIN keys[n].groups} :
           n \in DOMAIN keys}

UsedKeyIds(keys) == {a[2] : a \in {b \in WrapAtoms(keys) : b[1] = "key"}}

\* some entry of `keys` carries group g
Carried(keys, g) == \E n \in DOMAIN keys : g \in DOMAIN keys[n].groups


----------------------------------------------------------------------------
(* server/keymgmt.rs: the edits of the operations.  Each takes the         *)
(* in-memory KdfList the transaction loaded and returns the closure's      *)
(* result (res: "Ok" or the ErrorKind), the in-memory list as the closure  *)
(* left it, and the value returned on success.                             *)

EditResult(res, kdflist, ret) == [res |-> res, kdflist |-> kdflist, ret |-> ret]

KdfList(keys) == [keys |-> keys]

\* the j-th fresh number past `used`
RECURSIVE NthFresh(_, _)
NthFresh(used, j) ==
    IF j <= 1 THEN MinFresh(used)
    ELSE NthFresh(used \cup {MinFresh(used)}, j - 1)

\* add_key wrapping a newly generated key chain instead of the derived one
add_key_NewKeyChain(kdflist, old_passphrase, new_passphrase, new_name, now) ==
    LET key_chain == try_derive_key(old_passphrase, kdflist.keys)
    IN  IF key_chain = None
        THEN EditResult("PassphraseNotInKdfList", kdflist, None)
        ELSE LET inserted ==
                   KdfList(MapPut(kdflist.keys, new_name,
                       create_key(new_passphrase,
                           KeyChain_generate_new(
                               NthFresh(UsedKeyIds(kdflist.keys), 1),
                               NthFresh(UsedKeyIds(kdflist.keys), 2)),
                           now, None, None,
                           MinFresh(UsedSalts(kdflist.keys)))))
             IN  IF new_name \in DOMAIN kdflist.keys
                 THEN EditResult("KeyNameAlreadyInUse", inserted, None)
                 ELSE EditResult("Ok", inserted, None)

\* add_key without the check of the name: the insert replaces the entry
add_key_ReplacesExisting(kdflist, old_passphrase, new_passphrase, new_name, now) ==
    LET key_chain == try_derive_key(old_passphrase, kdflist.keys)
    IN  IF key_chain = None
        THEN EditResult("PassphraseNotInKdfList", kdflist, None)
        ELSE EditResult("Ok",
                 KdfList(MapPut(kdflist.keys, new_name,
                                create_key(new_passphrase, key_chain[1], now,
                                           None, None,
                                           MinFresh(UsedSalts(kdflist.keys))))),
                 None)

add_key(kdflist, old_passphrase, new_passphrase, new_name, now) ==
    LET key_chain == try_derive_key(old_passphrase, kdflist.keys)
    IN  IF key_chain = None
        THEN EditResult("PassphraseNotInKdfList", kdflist, None)
        ELSE LET inserted ==
                   KdfList(MapPut(kdflist.keys, new_name,
                                  create_key(new_passphrase, key_chain[1], now,
                                             None, None,
                                             MinFresh(UsedSalts(kdflist.keys)))))
             IN  IF new_name \in DOMAIN kdflist.keys
                 THEN EditResult("KeyNameAlreadyInUse", inserted, None)
                 ELSE EditResult("Ok", inserted, None)

\* del_key with the emptiness check left out
del_key_NoLastEntryCheck(kdflist, name) ==
    IF name \notin DOMAIN kdflist.keys
    THEN EditResult("KeyNotInKdfList", kdflist, None)
    ELSE LET old_entry == kdflist.keys[name]
             removed == KdfList(MapRemove(kdflist.keys, name))
         IN  IF \E g \in DOMAIN old_entry.groups : ~Carried(removed.keys, g)
             THEN EditResult("WouldDisassocLastKeyFromGroup", removed, None)
             ELSE EditResult("Ok", removed, None)

\* del_key without the check of the groups the entry is last to carry
del_key_NoLastKeyCheck(kdflist, name) ==
    IF name \notin DOMAIN kdflist.keys
    THEN EditResult("KeyNotInKdfList", kdflist, None)
    ELSE LET removed == KdfList(MapRemove(kdflist.keys, name))
         IN  IF DOMAIN removed.keys = {}
             THEN EditResult("WouldRemoveLastKdfEntry", removed, None)
             ELSE EditResult("Ok", removed, None)

del_key(kdflist, name) ==
    IF name \notin DOMAIN kdflist.keys
    THEN EditResult("KeyNotInKdfList", kdflist, None)
    ELSE LET old_entry == kdflist.keys[name]
             removed == KdfList(MapRemove(kdflist.keys, name))
         IN  IF DOMAIN removed.keys = {}
             THEN EditResult("WouldRemoveLastKdfEntry", removed, None)
             ELSE IF \E g \in DOMAIN old_entry.groups : ~Carried(removed.keys, g)
             THEN EditResult("WouldDisassocLastKeyFromGroup", removed, None)
             ELSE EditResult("Ok", removed, None)

\* change_key wrapping the whole derived chain, not the entry's groups
change_key_WrapsDerivedChain(kdflist, old_passphrase, new_passphrase, name, allow_change_via_other_passphrase, now) ==
    IF name = None /\ Cardinality(DOMAIN kdflist.keys) # 1
    THEN EditResult("AnonChangeKeyButMultipleKdfEntries", kdflist, None)
    ELSE
    LET real_name == IF name # None THEN name[1]
                     ELSE CHOOSE n \in DOMAIN kdflist.keys : TRUE
    IN  IF real_name \notin DOMAIN kdflist.keys
        THEN EditResult("KeyNotInKdfList", kdflist, None)
        ELSE
        LET old_entry == kdflist.keys[real_name]
            removed   == KdfList(MapRemove(kdflist.keys, real_name))
            own       == try_derive_key_single(old_passphrase, old_entry)
            other     == try_derive_key(old_passphrase, removed.keys)
        IN  IF own = None /\ other = None
            THEN EditResult("PassphraseNotInKdfList", removed, None)
            ELSE IF own = None /\ ~allow_change_via_other_passphrase
            THEN EditResult("ChangeKeyWithPassphraseMismatch", removed, None)
            ELSE
            LET key_chain == IF own # None THEN own[1] ELSE other[1]
            IN  IF \E g \in DOMAIN old_entry.groups : g \notin DOMAIN key_chain
                THEN EditResult("KeyNotInGroup", removed, None)
                ELSE EditResult("Ok",
                        KdfList(MapPut(removed.keys, real_name,
                            create_key(new_passphrase, key_chain,
                                       old_entry.created, Some(now),
                                       old_entry.used,
                                       MinFresh(UsedSalts(kdflist.keys))))),
                        None)

\* change_key leaving out the groups the derived chain lacks
change_key_DropsMissingGroups(kdflist, old_passphrase, new_passphrase, name, allow_change_via_other_passphrase, now) ==
    IF name = None /\ Cardinality(DOMAIN kdflist.keys) # 1
    THEN EditResult("AnonChangeKeyButMultipleKdfEntries", kdflist, None)
    ELSE
    LET real_name == IF name # None THEN name[1]
                     ELSE CHOOSE n \in DOMAIN kdflist.keys : TRUE
    IN  IF real_name \notin DOMAIN kdflist.keys
        THEN EditResult("KeyNotInKdfList", kdflist, None)
        ELSE
        LET old_entry == kdflist.keys[real_name]
            removed   == KdfList(MapRemove(kdflist.keys, real_name))
            own       == try_derive_key_single(old_passphrase, old_entry)
            other     == try_derive_key(old_passphrase, removed.keys)
        IN  IF own = None /\ other = None
            THEN EditResult("PassphraseNotInKdfList", removed, None)
            ELSE IF own = None /\ ~allow_change_via_other_passphrase
            THEN EditResult("ChangeKeyWithPassphraseMismatch", removed, None)
            ELSE
            LET key_chain == IF own # None THEN own[1] ELSE other[1]
                new_chain == [g \in DOMAIN old_entry.groups \cap DOMAIN key_chain |->
                                 key_chain[g]]
            IN  EditResult("Ok",
                    KdfList(MapPut(removed.keys, real_name,
                        create_key(new_passphrase, new_chain,
                                   old_entry.created, Some(now),
                                   old_entry.used,
                                   MinFresh(UsedSalts(kdflist.keys))))),
                    None)

\* change_key trying the passphrase on the list before it looks at the name
change_key_PassphraseFirst(kdflist, old_passphrase, new_passphrase, name, allow_change_via_other_passphrase, now) ==
    IF try_derive_key(old_passphrase, kdflist.keys) = None
    THEN EditResult("PassphraseNotInKdfList", kdflist, None)
    ELSE IF name = None /\ Cardinality(DOMAIN kdflist.keys) # 1
    THEN EditResult("AnonChangeKeyButMultipleKdfEntries", kdflist, None)
    ELSE
    LET real_name == IF name # None THEN name[1]
                     ELSE CHOOSE n \in DOMAIN kdflist.keys : TRUE
    IN  IF real_name \notin DOMAIN kdflist.keys
        THEN EditResult("KeyNotInKdfList", kdflist, None)
        ELSE
        LET old_entry == kdflist.keys[real_name]
            removed   == KdfList(MapRemove(kdflist.keys, real_name))
            own       == try_derive_key_single(old_passphrase, old_entry)
            other     == try_derive_key(old_passphrase, removed.keys)
        IN  IF own = None /\ ~allow_change_via_other_passphrase
            THEN EditResult("ChangeKeyWithPassphraseMismatch", removed, None)
            ELSE
            LET key_chain == IF own # None THEN own[1] ELSE other[1]
            IN  IF \E g \in DOMAIN old_entry.groups : g \notin DOMAIN key_chain
                THEN EditResult("KeyNotInGroup", removed, None)
                ELSE
                LET new_chain == [g \in DOMAIN old_entry.groups |-> key_chain[g]]
                IN  EditResult("Ok",
                        KdfList(MapPut(removed.keys, real_name,
                            create_key(new_passphrase, new_chain,
                                       old_entry.created, Some(now),
                                       old_entry.used,
                                       MinFresh(UsedSalts(kdflist.keys))))),
                        None)

\* change_key taking no notice of allow_change_via_other_passphrase
change_key_AlwaysAllowsOther(kdflist, old_passphrase, new_passphrase, name, allow_change_via_other_passphrase, now) ==
    IF name = None /\ Cardinality(DOMAIN kdflist.keys) # 1
    THEN EditResult("AnonChangeKeyButMultipleKdfEntries", kdflist, None)
    ELSE
    LET real_name == IF name # None THEN name[1]
                     ELSE CHOOSE n \in DOMAIN kdflist.keys : TRUE
    IN  IF real_name \notin DOMAIN kdflist.keys
        THEN EditResult("KeyNotInKdfList", kdflist, None)
        ELSE
        LET old_entry == kdflist.keys[real_name]
            removed   == KdfList(MapRemove(kdflist.keys, real_name))
            own       == try_derive_key_single(old_passphrase, old_entry)
            other     == try_derive_key(old_passphrase, removed.keys)
        IN  IF own = None /\ other = None
            THEN EditResult("PassphraseNotInKdfList", removed, None)
            ELSE
            LET key_chain == IF own # None THEN own[1] ELSE other[1]
            IN  IF \E g \in DOMAIN old_entry.groups : g \notin DOMAIN key_chain
                THEN EditResult("KeyNotInGroup", removed, None)
                ELSE
                LET new_chain == [g \in DOMAIN old_entry.groups |-> key_chain[g]]
                IN  EditResult("Ok",
                        KdfList(MapPut(removed.keys, real_name,
                            create_key(new_passphrase, new_chain,
                                       old_entry.created, Some(now),
                                       old_entry.used,
                                       MinFresh(UsedSalts(kdflist.keys))))),
                        None)

\* name is None or Some(name)
change_key(kdflist, old_passphrase, new_passphrase, name, allow_change_via_other_passphrase, now) ==
    IF name = None /\ Cardinality(DOMAIN kdflist.keys) # 1
    THEN EditResult("AnonChangeKeyButMultipleKdfEntries", kdflist, None)
    ELSE
    LET real_name == IF name # None THEN name[1]
                     ELSE CHOOSE n \in DOMAIN kdflist.keys : TRUE
    IN  IF real_name \notin DOMAIN kdflist.keys
        THEN EditResult("KeyNotInKdfList", kdflist, None)
        ELSE
        LET old_entry == kdflist.keys[real_name]
            removed   == KdfList(MapRemove(kdflist.keys, real_name))
            own       == try_derive_key_single(old_passphrase, old_entry)
            other     == try_derive_key(old_passphrase, removed.keys)
        IN  IF own = None /\ other = None
            THEN EditResult("PassphraseNotInKdfList", removed, None)
            ELSE IF own = None /\ ~allow_change_via_other_passphrase
            THEN EditResult("ChangeKeyWithPassphraseMismatch", removed, None)
            ELSE
            LET key_chain == IF own # None THEN own[1] ELSE other[1]
            IN  IF \E g \in DOMAIN old_entry.groups : g \notin DOMAIN key_chain
                THEN EditResult("KeyNotInGroup", removed, None)
                ELSE
                LET new_chain == [g \in DOMAIN old_entry.groups |-> key_chain[g]]
                IN  EditResult("Ok",
                        KdfList(MapPut(removed.keys, real_name,
                            create_key(new_passphrase, new_chain,
                                       old_entry.created, Some(now),
                                       old_entry.used,
                                       MinFresh(UsedSalts(kdflist.keys))))),
                        None)

\* derive_key_chain marking every entry the passphrase derives as used
derive_key_chain_MarksEveryMatch(kdflist, passphrase, now) ==
    LET m == Matching(passphrase, kdflist.keys)
    IN  IF m = <<>>
        THEN EditResult("PassphraseNotInKdfList", kdflist, None)
        ELSE EditResult("Ok",
                 KdfList([n \in DOMAIN kdflist.keys |->
                     IF try_derive_key_single(passphrase, kdflist.keys[n]) # None
                     THEN [kdflist.keys[n] EXCEPT !.used = Some(now)]
                     ELSE kdflist.keys[n]]),
                 try_derive_key_single(passphrase, kdflist.keys[m[1]]))

derive_key_chain(kdflist, passphrase, now) ==
    LET m == Matching(passphrase, kdflist.keys)
    IN  IF m = <<>>
        THEN EditResult("PassphraseNotInKdfList", kdflist, None)
        ELSE EditResult("Ok",
                 KdfList([kdflist.keys EXCEPT ![m[1]].used = Some(now)]),
                 try_derive_key_single(passphrase, kdflist.keys[m[1]]))

\* key_chain.keys.insert(name, InternalKey::generate_new()) for each name
RECURSIVE CreateGroupLoop(_, _, _)
CreateGroupLoop(key_chain, names, used) ==
    IF names = <<>> THEN key_chain
    ELSE LET k == MinFresh(used)
         IN  CreateGroupLoop(MapPut(key_chain, Head(names), InternalKey(k)),
                             Tail(names), used \cup {k})

\* create_group trying the passphrase before it looks for the names
create_group_PassphraseFirst(kdflist, passphrase, names) ==
    LET m == Matching(passphrase, kdflist.keys)
    IN  IF m = <<>>
        THEN EditResult("PassphraseNotInKdfList", kdflist, None)
        ELSE IF \E i \in 1..Len(names) : Carried(kdflist.keys, names[i])
        THEN EditResult("GroupNameAlreadyInUse", kdflist, None)
        ELSE LET e == kdflist.keys[m[1]]
                 key_chain == CreateGroupLoop(
                     try_derive_key_single(passphrase, e)[1], names,
                     UsedKeyIds(kdflist.keys))
             IN  EditResult("Ok",
                     KdfList([kdflist.keys EXCEPT
                                ![m[1]] = reassoc_keys(e, passphrase, key_chain)]),
                     None)

create_group(kdflist, passphrase, names) ==
    IF \E i \in 1..Len(names) : Carried(kdflist.keys, names[i])
    THEN EditResult("GroupNameAlreadyInUse", kdflist, None)
    ELSE LET m == Matching(passphrase, kdflist.keys)
         IN  IF m = <<>>
             THEN EditResult("PassphraseNotInKdfList", kdflist, None)
             ELSE LET e == kdflist.keys[m[1]]
                      key_chain == CreateGroupLoop(
                          try_derive_key_single(passphrase, e)[1], names,
                          UsedKeyIds(kdflist.keys))
                  IN  EditResult("Ok",
                          KdfList([kdflist.keys EXCEPT
                                     ![m[1]] = reassoc_keys(e, passphrase, key_chain)]),
                          None)

\* the loop over names of assoc_group: res and the chain built so far
RECURSIVE AssocGroupLoop(_, _, _)
AssocGroupLoop(key_chain, src_chain, names) ==
    IF names = <<>> THEN [res |-> "Ok", key_chain |-> key_chain]
    ELSE IF Head(names) \in DOMAIN key_chain
    THEN [res |-> "KeyAlreadyInGroup", key_chain |-> key_chain]
    ELSE IF Head(names) \notin DOMAIN src_chain
    THEN [res |-> "KeyNotInGroup", key_chain |-> key_chain]
    ELSE AssocGroupLoop(MapPut(key_chain, Head(names), src_chain[Head(names)]),
                        src_chain, Tail(names))

\* assoc_group wrapping newly generated keys, not those of the src chain
assoc_group_GeneratesNewKeys(kdflist, src_passphrase, dst_passphrase, names) ==
    LET src_chain == try_derive_key(src_passphrase, kdflist.keys)
        m == Matching(dst_passphrase, kdflist.keys)
    IN  IF src_chain = None \/ m = <<>>
        THEN EditResult("PassphraseNotInKdfList", kdflist, None)
        ELSE LET e == kdflist.keys[m[1]]
                 l == AssocGroupLoop(try_derive_key_single(dst_passphrase, e)[1],
                                     src_chain[1], names)
             IN  IF l.res # "Ok"
                 THEN EditResult(l.res, kdflist, None)
                 ELSE EditResult("Ok",
                          KdfList([kdflist.keys EXCEPT
                                     ![m[1]] = reassoc_keys(e, dst_passphrase,
                                         CreateGroupLoop(
                                             try_derive_key_single(dst_passphrase, e)[1],
                                             names, UsedKeyIds(kdflist.keys)))]),
                          None)

assoc_group(kdflist, src_passphrase, dst_passphrase, names) ==
    LET src_chain == try_derive_key(src_passphrase, kdflist.keys)
        m == Matching(dst_passphrase, kdflist.keys)
    IN  IF src_chain = None \/ m = <<>>
        THEN EditResult("PassphraseNotInKdfList", kdflist, None)
        ELSE LET e == kdflist.keys[m[1]]
                 l == AssocGroupLoop(try_derive_key_single(dst_passphrase, e)[1],
                                     src_chain[1], names)
             IN  IF l.res # "Ok"
                 THEN EditResult(l.res, kdflist, None)
                 ELSE EditResult("Ok",
                          KdfList([kdflist.keys EXCEPT
                                     ![m[1]] = reassoc_keys(e, dst_passphrase,
                                                            l.key_chain)]),
                          None)

\* entry.groups.remove(name) for each name, stopping at the first missing
RECURSIVE DisassocLoop(_, _)
DisassocLoop(groups, names) ==
    IF names = <<>> THEN [res |-> "Ok", groups |-> groups]
    ELSE IF Head(names) \notin DOMAIN groups
    THEN [res |-> "KeyNotInGroup", groups |-> groups]
    ELSE DisassocLoop(MapRemove(groups, Head(names)), Tail(names))

\* disassoc_group's pre-check refusing nothing
disassoc_group_precheck_RefusesNothing(names) == "Ok"

\* the check of disassoc_group made before the transaction
disassoc_group_precheck(names) ==
    IF \E i \in 1..Len(names) : names[i] = GROUP_EVERYONE
    THEN "CannotDisassocGroup" ELSE "Ok"

\* disassoc_group without the check that every name is still carried
disassoc_group_NoLastKeyCheck(kdflist, key, names) ==
    IF key \notin DOMAIN kdflist.keys
    THEN EditResult("KeyNotInKdfList", kdflist, None)
    ELSE LET l == DisassocLoop(kdflist.keys[key].groups, names)
             edited == KdfList([kdflist.keys EXCEPT ![key].groups = l.groups])
         IN  IF l.res # "Ok"
             THEN EditResult(l.res, edited, None)
             ELSE EditResult("Ok", edited, None)

\* disassoc_group passing over the names that are not on the entry
disassoc_group_SkipsMissingGroups(kdflist, key, names) ==
    IF key \notin DOMAIN kdflist.keys
    THEN EditResult("KeyNotInKdfList", kdflist, None)
    ELSE LET edited == KdfList([kdflist.keys EXCEPT ![key].groups =
                           [g \in DOMAIN kdflist.keys[key].groups \
                                  {names[i] : i \in 1..Len(names)} |->
                               kdflist.keys[key].groups[g]]])
         IN  IF \E i \in 1..Len(names) : ~Carried(edited.keys, names[i])
             THEN EditResult("WouldDisassocLastKeyFromGroup", edited, None)
             ELSE EditResult("Ok", edited, None)

disassoc_group(kdflist, key, names) ==
    IF key \notin DOMAIN kdflist.keys
    THEN EditResult("KeyNotInKdfList", kdflist, None)
    ELSE LET l == DisassocLoop(kdflist.keys[key].groups, names)
             edited == KdfList([kdflist.keys EXCEPT ![key].groups = l.groups])
         IN  IF l.res # "Ok"
             THEN EditResult(l.res, edited, None)
             ELSE IF \E i \in 1..Len(names) : ~Carried(edited.keys, names[i])
             THEN EditResult("WouldDisassocLastKeyFromGroup", edited, None)
             ELSE EditResult("Ok", edited, None)

\* destroy_group's pre-check refusing `root` alone
destroy_group_precheck_RefusesRootOnly(names) ==
    IF \E i \in 1..Len(names) : names[i] = GROUP_ROOT
    THEN "CannotDestroyGroup" ELSE "Ok"

\* the check of destroy_group made before the transaction
destroy_group_precheck(names) ==
    IF \E i \in 1..Len(names) :
          names[i] = GROUP_EVERYONE \/ names[i] = GROUP_ROOT
    THEN "CannotDestroyGroup" ELSE "Ok"

\* the group removed from the first entry, in name order, alone
RemoveGroupEverywhere_FirstEntryOnly(keys, name) ==
    [n \in DOMAIN keys |->
        IF n = SelectSeq(NameOrder, LAMBDA x : x \in DOMAIN keys)[1]
        THEN [keys[n] EXCEPT !.groups = MapRemove(keys[n].groups, name)]
        ELSE keys[n]]

RemoveGroupEverywhere(keys, name) ==
    [n \in DOMAIN keys |->
        [keys[n] EXCEPT !.groups = MapRemove(keys[n].groups, name)]]

RECURSIVE destroy_group(_, _)
destroy_group(kdflist, names) ==
    IF names = <<>> THEN EditResult("Ok", kdflist, None)
    ELSE LET found == Carried(kdflist.keys, Head(names))
             edited == KdfList(RemoveGroupEverywhere(kdflist.keys, Head(names)))
         IN  IF ~found
             THEN EditResult("GroupNotInKdfList", edited, None)
             ELSE destroy_group(edited, Tail(names))


----------------------------------------------------------------------------
(* The Storage contract, for the one directory DIRID_KEYS: a directory is  *)
(* None or Some([ver, data]); rmdir and mkdir are staged in the            *)
(* transaction and take effect at commit, which reports a conflict (and    *)
(* changes nothing) unless every staged call applies.                      *)

DIRID_KEYS == "dir0"

\* fourleaf::to_vec / from_slice_copy of a KdfList, and data.len()
fourleaf_to_vec(kdflist) == [fourleaf |-> kdflist]
fourleaf_from_slice(data) == data.fourleaf

RECURSIVE SumOver(_, _)
SumOver(S, f) ==
    IF S = {} THEN 0
    ELSE LET x == CHOOSE y \in S : TRUE IN f[x] + SumOver(S \ {x}, f)

data_len(data) ==
    LET keys == data.fourleaf.keys
    IN  SumOver(DOMAIN keys,
                [n \in DOMAIN keys |-> 1 + Cardinality(DOMAIN keys[n].groups)])

Rmdir(ver, len) == [call |-> "rmdir", id |-> DIRID_KEYS, ver |-> ver, len |-> len]
Mkdir(ver, data) == [call |-> "mkdir", id |-> DIRID_KEYS, ver |-> ver, data |-> data]

\* the directory after the staged calls, or "conflict"
RECURSIVE Storage_apply(_, _)
Storage_apply(dir, staged) ==
    IF staged = <<>> THEN [ok |-> TRUE, dir |-> dir]
    ELSE LET c == Head(staged)
         IN  IF c.call = "rmdir"
             THEN IF dir # None /\ dir[1].ver = c.ver /\ data_len(dir[1].data) = c.len
                  THEN Storage_apply(None, Tail(staged))
                  ELSE [ok |-> FALSE, dir |-> dir]
             ELSE IF dir = None
                  THEN Storage_apply(Some([ver |-> c.ver, data |-> c.data]),
                                     Tail(staged))
                  ELSE [ok |-> FALSE, dir |-> dir]

\* storage.commit(tx): [ok, dir]
Storage_commit(dir, staged) ==
    LET r == Storage_apply(dir, staged)
    IN  IF r.ok THEN r ELSE [ok |-> FALSE, dir |-> dir]

\* storage.abort(tx): the staged calls are dropped
Storage_abort(dir, staged) == dir

----------------------------------------------------------------------------
(* server/keymgmt.rs: get_kdflist, put_kdflist, edit_kdflist, do_tx *)

TX_RETRIES == 16

get_kdflist(dir) ==
    IF dir = None THEN None
    ELSE Some([kdflist |-> fourleaf_from_slice(dir[1].data),
               ver     |-> dir[1].ver,
               len     |-> data_len(dir[1].data)])

\* the KeyInfo of the entry under `name`
KeyInfo(name, e) ==
    [name      |-> name,
     algorithm |-> e.algorithm,
     created   |-> e.created,
     updated   |-> e.updated,
     used      |-> e.used,
     groups    |-> SelectSeq(GroupOrder, LAMBDA g : g \in DOMAIN e.groups)]

\* the names of `keys`, in map order
KeyNames(keys) == SelectSeq(NameOrder, LAMBDA n : n \in DOMAIN keys)

\* list_keys leaving out the last entry of the list
list_keys_DropsLastEntry(dir) ==
    LET got == get_kdflist(dir)
    IN  IF got = None THEN <<>>
        ELSE [i \in 1..(Len(KeyNames(got[1].kdflist.keys)) - 1) |->
                 KeyInfo(KeyNames(got[1].kdflist.keys)[i],
                         got[1].kdflist.keys[KeyNames(got[1].kdflist.keys)[i]])]

\* list_keys: the KeyInfo of every entry, in map order, or the empty Vec
list_keys(dir) ==
    LET got == get_kdflist(dir)
    IN  IF got = None THEN <<>>
        ELSE [i \in 1..Len(KeyNames(got[1].kdflist.keys)) |->
                 KeyInfo(KeyNames(got[1].kdflist.keys)[i],
                         got[1].kdflist.keys[KeyNames(got[1].kdflist.keys)[i]])]

\* the storage calls put_kdflist makes: old is None or Some(<<ver, len>>)
put_kdflist(kdf, old, new_ver) ==
    (IF old # None THEN <<Rmdir(old[1][1], old[1][2])>> ELSE <<>>)
        \o <<Mkdir(new_ver, fourleaf_to_vec(kdf))>>

\* the closure's result: res, the calls it staged, the value it returns,
\* and the in-memory list it leaves behind (None when none was loaded)
ClosureResult(res, staged, ret, mem) ==
    [res |-> res, staged |-> staged, ret |-> ret, mem |-> mem]

\* an operation is a record [op, ...its arguments]
ApplyEdit(op, kdflist, now) ==
    CASE op.op = "add_key" ->
            add_key(kdflist, op.old_passphrase, op.new_passphrase, op.new_name, now)
      [] op.op = "del_key" -> del_key(kdflist, op.name)
      [] op.op = "change_key" ->
            change_key(kdflist, op.old_passphrase, op.new_passphrase, op.name,
                       op.allow_change_via_other_passphrase, now)
      [] op.op = "derive_key_chain" -> derive_key_chain(kdflist, op.passphrase, now)
      [] op.op = "create_group" -> create_group(kdflist, op.passphrase, op.names)
      [] op.op = "assoc_group" ->
            assoc_group(kdflist, op.src_passphrase, op.dst_passphrase, op.names)
      [] op.op = "disassoc_group" -> disassoc_group(kdflist, op.key, op.names)
      [] op.op = "destroy_group" -> destroy_group(kdflist, op.names)

\* edit_kdflist putting the list before it looks at the edit's result
edit_kdflist_PutsFailedEdit(dir, op, now, new_ver) ==
    LET got == get_kdflist(dir)
    IN  IF got = None
        THEN ClosureResult("KdfListNotExists", <<>>, None, None)
        ELSE LET r == ApplyEdit(op, got[1].kdflist, now)
             IN  ClosureResult(r.res,
                     put_kdflist(r.kdflist, Some(<<got[1].ver, got[1].len>>),
                                 new_ver),
                     r.ret, Some(r.kdflist))

\* edit_kdflist taking a missing list for an empty one
edit_kdflist_MissingListIsEmpty(dir, op, now, new_ver) ==
    LET got == get_kdflist(dir)
        r == ApplyEdit(op, IF got = None THEN KdfList(<< >>) ELSE got[1].kdflist,
                       now)
    IN  IF r.res # "Ok"
        THEN ClosureResult(r.res, <<>>, None, Some(r.kdflist))
        ELSE ClosureResult("Ok",
                 put_kdflist(r.kdflist,
                             IF got = None THEN None
                             ELSE Some(<<got[1].ver, got[1].len>>),
                             new_ver),
                 r.ret, Some(r.kdflist))

\* the closure edit_kdflist hands to do_tx
edit_kdflist(dir, op, now, new_ver) ==
    LET got == get_kdflist(dir)
    IN  IF got = None
        THEN ClosureResult("KdfListNotExists", <<>>, None, None)
        ELSE LET r == ApplyEdit(op, got[1].kdflist, now)
             IN  IF r.res # "Ok"
                 THEN ClosureResult(r.res, <<>>, None, Some(r.kdflist))
                 ELSE ClosureResult("Ok",
                          put_kdflist(r.kdflist, Some(<<got[1].ver, got[1].len>>),
                                      new_ver),
                          r.ret, Some(r.kdflist))

\* init_keys not looking for an existing list
init_keys_NoExistenceCheck(dir, passphrase, key_name, now, new_ver) ==
    LET kdflist == KdfList(MapPut(<< >>, key_name,
                       create_key(passphrase, KeyChain_generate_new(0, 1),
                                  now, None, None, 0)))
        got == get_kdflist(dir)
    IN  ClosureResult("Ok",
            put_kdflist(kdflist,
                        IF got = None THEN None
                        ELSE Some(<<got[1].ver, got[1].len>>),
                        new_ver),
            None, Some(kdflist))

\* the closure init_keys hands to do_tx
init_keys(dir, passphrase, key_name, now, new_ver) ==
    IF get_kdflist(dir) # None
    THEN ClosureResult("KdfListAlreadyExists", <<>>, None, None)
    ELSE LET kdflist == KdfList(MapPut(<< >>, key_name,
                            create_key(passphrase, KeyChain_generate_new(0, 1),
                                       now, None, None, 0)))
         IN  ClosureResult("Ok", put_kdflist(kdflist, None, new_ver), None,
                           Some(kdflist))

Closure(dir, op, now, new_ver) ==
    IF op.op = "init_keys"
    THEN init_keys(dir, op.passphrase, op.key_name, now, new_ver)
    ELSE edit_kdflist(dir, op, now, new_ver)

\* the checks an operation makes before it enters do_tx
Precheck(op) ==
    CASE op.op = "disassoc_group" -> disassoc_group_precheck(op.names)
      [] op.op = "destroy_group" -> destroy_group_precheck(op.names)
      [] OTHER -> "Ok"

CallNames(staged) == [i \in 1..Len(staged) |-> staged[i].call]

\* do_tx_next letting the loop go round once more
do_tx_next_OneMoreAttempt(i, res, committed) ==
    IF res # "Ok"
    THEN [call |-> "abort", return |-> TRUE, res |-> res]
    ELSE IF committed
    THEN [call |-> "commit", return |-> TRUE, res |-> "Ok"]
    ELSE IF i + 1 <= TX_RETRIES
    THEN [call |-> "commit", return |-> FALSE, res |-> "Ok"]
    ELSE [call |-> "commit", return |-> TRUE, res |-> "TooManyTxRetries"]

\* do_tx_next retrying after an error of the closure
do_tx_next_RetriesAfterError(i, res, committed) ==
    IF res # "Ok" /\ i + 1 < TX_RETRIES
    THEN [call |-> "abort", return |-> FALSE, res |-> res]
    ELSE IF res # "Ok"
    THEN [call |-> "abort", return |-> TRUE, res |-> res]
    ELSE IF committed
    THEN [call |-> "commit", return |-> TRUE, res |-> "Ok"]
    ELSE IF i + 1 < TX_RETRIES
    THEN [call |-> "commit", return |-> FALSE, res |-> "Ok"]
    ELSE [call |-> "commit", return |-> TRUE, res |-> "TooManyTxRetries"]

\* do_tx_next returning Ok whatever commit reported
do_tx_next_ConflictIsSuccess(i, res, committed) ==
    IF res # "Ok"
    THEN [call |-> "abort", return |-> TRUE, res |-> res]
    ELSE [call |-> "commit", return |-> TRUE, res |-> "Ok"]

\* do_tx_next committing the transaction of a closure that failed
do_tx_next_CommitsAfterError(i, res, committed) ==
    IF res # "Ok"
    THEN [call |-> "commit", return |-> TRUE, res |-> res]
    ELSE IF committed
    THEN [call |-> "commit", return |-> TRUE, res |-> "Ok"]
    ELSE IF i + 1 < TX_RETRIES
    THEN [call |-> "commit", return |-> FALSE, res |-> "Ok"]
    ELSE [call |-> "commit", return |-> TRUE, res |-> "TooManyTxRetries"]

\* do_tx after the closure of attempt number i (from 0) returned res and,
\* if that was Ok, commit returned `committed`: the storage call made and
\* whether the loop returns (and what) or goes round again
do_tx_next(i, res, committed) ==
    IF res # "Ok"
    THEN [call |-> "abort", return |-> TRUE, res |-> res]
    ELSE IF committed
    THEN [call |-> "commit", return |-> TRUE, res |-> "Ok"]
    ELSE IF i + 1 < TX_RETRIES
    THEN [call |-> "commit", return |-> FALSE, res |-> "Ok"]
    ELSE [call |-> "commit", return |-> TRUE, res |-> "TooManyTxRetries"]

\* do_tx run to its end against a storage nothing else writes to:
\* [res, ret, dir, calls].  do_tx_match is the `match f(tx)` of attempt i
\* with c what f(tx) returned, do_tx_end what follows once commit or abort
\* has returned cm.
RECURSIVE do_tx(_, _, _, _, _, _)
do_tx_end(dir, op, now, new_ver, i, calls, c, cm) ==
    LET nx == do_tx_next(i, c.res, cm.ok)
    IN  IF nx.return
        THEN [res |-> nx.res, ret |-> IF nx.res = "Ok" THEN c.ret ELSE None,
              dir |-> cm.dir, calls |-> Append(calls, nx.call)]
        ELSE do_tx(cm.dir, op, now, new_ver, i + 1, Append(calls, nx.call))

do_tx_match(dir, op, now, new_ver, i, calls, c) ==
    do_tx_end(dir, op, now, new_ver, i, calls \o CallNames(c.staged), c,
              IF c.res = "Ok" THEN Storage_commit(dir, c.staged)
              ELSE [ok |-> FALSE, dir |-> Storage_abort(dir, c.staged)])

do_tx(dir, op, now, new_ver, i, calls) ==
    do_tx_match(dir, op, now, new_ver, i, calls \o <<"start_tx", "getdir">>,
                Closure(dir, op, now, new_ver))


----------------------------------------------------------------------------
(* The key-management operations, each run to its end by one client *)

\* the block-transfer variables, at rest
BlockIdle ==
    /\ source = <<>>
    /\ rest = <<>>
    /\ block_size = 1
    /\ secret = <<>>
    /\ block_data = <<0>>
    /\ off = 0
    /\ blocks = <<>>
    /\ size = 0
    /\ total_kc = <<>>
    /\ read_kinds = {}
    /\ sunk = <<>>
    /\ store = << >>
    /\ s2b_pc = "off"
    /\ s2b_res = "none"
    /\ blocklist = NoBlockList
    /\ b2s_pc = "off"
    /\ b2s_res = "none"
    /\ idx = 0
    /\ reader = <<>>
    /\ kc = <<>>
    /\ output = <<>>

Init ==
    /\ BlockIdle
    /\ FnIdle
    /\ KmIdle
    /\ TxIdle
    /\ ConcIdle

\* the lists of group names an operation may be called with
GroupArgs == SeqsUpTo(Groups, MaxGroupArgs) \ {<<>>}

\* rand_hashid() for a new directory version
FreshVer(dir) == MinFresh(IF dir = None THEN {} ELSE {dir[1].ver})

\* UTC::now(): the clock moves on between any two operations
UTC_now == nops + 1

\* the operation called and run to its return
Run(op) ==
    /\ nops' = nops + 1
    /\ \E r \in {IF Precheck(op) # "Ok"
                  THEN [res |-> Precheck(op), ret |-> None, dir |-> kdf_dir,
                        calls |-> <<>>]
                  ELSE do_tx(kdf_dir, op, UTC_now, FreshVer(kdf_dir), 0, <<>>)} :
          /\ kdf_dir' = r.dir
          /\ last' = [op |-> op, res |-> r.res, ret |-> r.ret,
                      calls |-> r.calls]
    /\ UNCHANGED <<fnVars, blockVars, txVars, client>>

InitKeys ==
    /\ nops < MaxOps
    /\ \E passphrase \in Passphrases, key_name \in Names :
            Run([op |-> "init_keys", passphrase |-> passphrase,
                 key_name |-> key_name])

AddKey ==
    /\ nops < MaxOps
    /\ \E old_passphrase \in Passphrases, new_passphrase \in Passphrases,
           new_name \in Names :
            Run([op |-> "add_key", old_passphrase |-> old_passphrase,
                 new_passphrase |-> new_passphrase, new_name |-> new_name])

DelKey ==
    /\ nops < MaxOps
    /\ \E name \in Names : Run([op |-> "del_key", name |-> name])

ChangeKey ==
    /\ nops < MaxOps
    /\ \E old_passphrase \in Passphrases, new_passphrase \in Passphrases,
           name \in {None} \cup {Some(n) : n \in Names}, allow \in BOOLEAN :
            Run([op |-> "change_key", old_passphrase |-> old_passphrase,
                 new_passphrase |-> new_passphrase, name |-> name,
                 allow_change_via_other_passphrase |-> allow])

DeriveKeyChain ==
    /\ nops < MaxOps
    /\ \E passphrase \in Passphrases :
            Run([op |-> "derive_key_chain", passphrase |-> passphrase])

CreateGroup ==
    /\ nops < MaxOps
    /\ \E passphrase \in Passphrases, names \in GroupArgs :
            Run([op |-> "create_group", passphrase |-> passphrase,
                 names |-> names])

AssocGroup ==
    /\ nops < MaxOps
    /\ \E src_passphrase \in Passphrases, dst_passphrase \in Passphrases,
           names \in GroupArgs :
            Run([op |-> "assoc_group", src_passphrase |-> src_passphrase,
                 dst_passphrase |-> dst_passphrase, names |-> names])

DisassocGroup ==
    /\ nops < MaxOps
    /\ \E key \in Names, names \in GroupArgs :
            Run([op |-> "disassoc_group", key |-> key, names |-> names])

DestroyGroup ==
    /\ nops < MaxOps
    /\ \E names \in GroupArgs :
            Run([op |-> "destroy_group", names |-> names])

\* list_keys reads the directory outside any transaction
ListKeys ==
    /\ nops < MaxOps
    /\ nops' = nops + 1
    /\ last' = [op |-> [op |-> "list_keys"], res |-> "Ok",
                ret |-> Some(list_keys(kdf_dir)), calls |-> <<"getdir">>]
    /\ UNCHANGED <<kdf_dir, fnVars, blockVars, txVars, client>>

Next ==
    \/ InitKeys
    \/ AddKey
    \/ DelKey
    \/ ChangeKey
    \/ DeriveKeyChain
    \/ CreateGroup
    \/ AssocGroup
    \/ DisassocGroup
    \/ DestroyGroup
    \/ ListKeys

Spec == Init /\ [][Next]_vars

----------------------------------------------------------------------------
(* do_tx step by step, over any closure and any storage: start_tx, commit  *)
(* and abort may fail, commit may report a conflict, and f(tx) may return  *)
(* any value or any error.                                                 *)

\* what f(tx) may return
ClosureValues == {"r1", "r2"}
ClosureErrors == {"KdfListNotExists", "WouldRemoveLastKdfEntry"}

StorageCall(call, result) == [call |-> call, result |-> result]

TxResult(res, r) == Some([res |-> res, r |-> r])

InitTx ==
    /\ BlockIdle
    /\ FnIdle
    /\ KmIdle
    /\ ConcIdle
    /\ tx_pc = "start_tx"
    /\ tx_i = 0
    /\ tx_f = None
    /\ tx_calls = <<>>
    /\ tx_res = None

\* storage.start_tx(tx)? returns Ok
TxStartTx ==
    /\ tx_pc = "start_tx"
    /\ tx_calls' = Append(tx_calls, StorageCall("start_tx", "Ok"))
    /\ tx_pc' = "f"
    /\ UNCHANGED <<tx_i, tx_f, tx_res>>
    /\ UNCHANGED <<fnVars, blockVars, kmVars, client>>

\* storage.start_tx(tx)? returns an error, which do_tx returns
TxStartTxError ==
    /\ tx_pc = "start_tx"
    /\ tx_calls' = Append(tx_calls, StorageCall("start_tx", "Err"))
    /\ tx_pc' = "done"
    /\ tx_res' = TxResult("StorageError", None)
    /\ UNCHANGED <<tx_i, tx_f>>
    /\ UNCHANGED <<fnVars, blockVars, kmVars, client>>

\* f(tx) returns Ok(r)
TxClosureOk ==
    /\ tx_pc = "f"
    /\ \E r \in ClosureValues :
          /\ tx_f' = Some([res |-> "Ok", r |-> r])
          /\ tx_pc' = do_tx_next(tx_i, "Ok", FALSE).call
    /\ UNCHANGED <<tx_i, tx_calls, tx_res>>
    /\ UNCHANGED <<fnVars, blockVars, kmVars, client>>

\* f(tx) returns Err(e)
TxClosureErr ==
    /\ tx_pc = "f"
    /\ \E e \in ClosureErrors :
          /\ tx_f' = Some([res |-> e, r |-> None])
          /\ tx_pc' = do_tx_next(tx_i, e, FALSE).call
    /\ UNCHANGED <<tx_i, tx_calls, tx_res>>
    /\ UNCHANGED <<fnVars, blockVars, kmVars, client>>

\* where the loop goes after the commit or abort of this attempt
TxAfter(nx) ==
    IF nx.return
    THEN /\ tx_pc' = "done"
         /\ tx_res' = TxResult(nx.res, IF nx.res = "Ok" THEN tx_f[1].r ELSE None)
         /\ UNCHANGED tx_f
    ELSE /\ tx_pc' = "start_tx"
         /\ tx_f' = None
         /\ UNCHANGED tx_res

\* storage.commit(tx)? returns Ok(true) or Ok(false)
TxCommit ==
    /\ tx_pc = "commit"
    /\ \E committed \in BOOLEAN :
          /\ tx_calls' = Append(tx_calls,
                 StorageCall("commit", IF committed THEN "true" ELSE "false"))
          /\ tx_i' = IF committed THEN tx_i ELSE tx_i + 1
          /\ TxAfter(do_tx_next(tx_i, tx_f[1].res, committed))
    /\ UNCHANGED <<fnVars, blockVars, kmVars, client>>

\* storage.commit(tx)? returns an error, which do_tx returns
TxCommitError ==
    /\ tx_pc = "commit"
    /\ tx_calls' = Append(tx_calls, StorageCall("commit", "Err"))
    /\ tx_pc' = "done"
    /\ tx_res' = TxResult("StorageError", None)
    /\ UNCHANGED <<tx_i, tx_f>>
    /\ UNCHANGED <<fnVars, blockVars, kmVars, client>>

\* let _ = storage.abort(tx): whatever abort returns is dropped
TxAbort ==
    /\ tx_pc = "abort"
    /\ \E result \in {"Ok", "Err"} :
          tx_calls' = Append(tx_calls, StorageCall("abort", result))
    /\ tx_i' = IF do_tx_next(tx_i, tx_f[1].res, FALSE).return
               THEN tx_i ELSE tx_i + 1
    /\ TxAfter(do_tx_next(tx_i, tx_f[1].res, FALSE))
    /\ UNCHANGED <<fnVars, blockVars, kmVars, client>>

NextTx ==
    \/ TxStartTx
    \/ TxStartTxError
    \/ TxClosureOk
    \/ TxClosureErr
    \/ TxCommit
    \/ TxCommitError
    \/ TxAbort

SpecTx == InitTx /\ [][NextTx]_vars

----------------------------------------------------------------------------
(* do_tx with the closure of init_keys or of edit_kdflist, storage call by  *)
(* storage call: getdir, rmdir and mkdir may fail as start_tx and commit    *)
(* may, and the edit may return an error.                                   *)

ClosureOps == {"init_keys", "edit_kdflist"}

\* the directory an attempt may find: its version changes from one attempt
\* to the next, as the conflict reported by commit says
LoadedVer == tx_i + 1
LoadedLen == 1

\* rand_hashid() of put_kdflist: no version getdir returned
NewVer == TX_RETRIES + tx_i + 1

\* the closure returns to do_tx
ClosureReturns(res, r) ==
    /\ tx_f' = Some([res |-> res, r |-> r])
    /\ tx_pc' = do_tx_next(tx_i, res, FALSE).call

InitTxCalls ==
    /\ BlockIdle
    /\ KmIdle
    /\ ConcIdle
    /\ tx_pc = "start_tx"
    /\ tx_i = 0
    /\ tx_f = None
    /\ tx_calls = <<>>
    /\ tx_res = None
    /\ \E op \in ClosureOps : fn_args = [op |-> op]
    /\ fn_ret = None

\* get_kdflist(storage)?: storage.getdir(&DIRID_KEYS) fails
ClosureGetdirError ==
    /\ tx_pc = "f"
    /\ tx_calls' = Append(tx_calls, StorageCall("getdir", "Err"))
    /\ ClosureReturns("StorageError", None)
    /\ UNCHANGED <<tx_i, tx_res>>
    /\ UNCHANGED <<fnVars, blockVars, kmVars, client>>

\* get_kdflist(storage)? returns None: init_keys goes on to put_kdflist,
\* edit_kdflist returns KdfListNotExists
ClosureGetdirNone ==
    /\ tx_pc = "f"
    /\ tx_calls' = Append(tx_calls, StorageCall("getdir", "None"))
    /\ IF fn_args.op = "init_keys"
       THEN tx_pc' = "mkdir" /\ UNCHANGED tx_f
       ELSE ClosureReturns("KdfListNotExists", None)
    /\ UNCHANGED <<tx_i, tx_res>>
    /\ UNCHANGED <<fnVars, blockVars, kmVars, client>>

\* get_kdflist(storage)? returns the list, its version and its length:
\* init_keys returns KdfListAlreadyExists, edit_kdflist goes on to the edit
ClosureGetdirSome ==
    /\ tx_pc = "f"
    /\ tx_calls' = Append(tx_calls,
           [call |-> "getdir", result |-> "Some",
            ver |-> LoadedVer, len |-> LoadedLen])
    /\ IF fn_args.op = "init_keys"
       THEN ClosureReturns("KdfListAlreadyExists", None)
       ELSE tx_pc' = "edit" /\ UNCHANGED tx_f
    /\ UNCHANGED <<tx_i, tx_res>>
    /\ UNCHANGED <<fnVars, blockVars, kmVars, client>>

\* let r = f(&mut kdflist)?
ClosureEdit ==
    /\ tx_pc = "edit"
    /\ \/ tx_pc' = "rmdir" /\ UNCHANGED tx_f
       \/ \E e \in ClosureErrors : ClosureReturns(e, None)
    /\ UNCHANGED <<tx_i, tx_calls, tx_res>>
    /\ UNCHANGED <<fnVars, blockVars, kmVars, client>>

\* put_kdflist: storage.rmdir(tx, &DIRID_KEYS, old_ver, old_len)?
ClosureRmdir ==
    /\ tx_pc = "rmdir"
    /\ \E result \in {"Ok", "Err"} :
          /\ tx_calls' = Append(tx_calls,
                 [call |-> "rmdir", result |-> result,
                  ver |-> tx_calls[Len(tx_calls)].ver,
                  len |-> tx_calls[Len(tx_calls)].len])
          /\ IF result = "Ok" THEN tx_pc' = "mkdir" /\ UNCHANGED tx_f
             ELSE ClosureReturns("StorageError", None)
    /\ UNCHANGED <<tx_i, tx_res>>
    /\ UNCHANGED <<fnVars, blockVars, kmVars, client>>

\* put_kdflist: storage.mkdir(tx, &DIRID_KEYS, &new_ver, &new_data)?, and
\* the closure returns Ok
ClosureMkdir ==
    /\ tx_pc = "mkdir"
    /\ \E result \in {"Ok", "Err"} :
          /\ tx_calls' = Append(tx_calls,
                 [call |-> "mkdir", result |-> result, ver |-> NewVer])
          /\ IF result = "Ok" THEN ClosureReturns("Ok", "r1")
             ELSE ClosureReturns("StorageError", None)
    /\ UNCHANGED <<tx_i, tx_res>>
    /\ UNCHANGED <<fnVars, blockVars, kmVars, client>>

NextTxCalls ==
    \/ TxStartTx
    \/ TxStartTxError
    \/ ClosureGetdirError
    \/ ClosureGetdirNone
    \/ ClosureGetdirSome
    \/ ClosureEdit
    \/ ClosureRmdir
    \/ ClosureMkdir
    \/ TxCommit
    \/ TxCommitError
    \/ TxAbort

SpecTxCalls == InitTxCalls /\ [][NextTxCalls]_vars

----------------------------------------------------------------------------
(* Two clients, each on its own handle of one storage, each running one    *)
(* operation through do_tx.  The closure of an attempt reads the directory *)
(* (getdir) and stages its rmdir and mkdir in its own transaction; commit  *)
(* applies them or reports a conflict.                                     *)

\* the names the clients add and delete
ConcNames == {"b", "c"}

ConcOps ==
    {[op |-> "add_key", old_passphrase |-> o, new_passphrase |-> p,
      new_name |-> n] : o \in Passphrases, p \in Passphrases, n \in ConcNames}
    \cup {[op |-> "del_key", name |-> n] : n \in ConcNames \cup {"a"}}
    \cup {[op |-> "derive_key_chain", passphrase |-> p] : p \in Passphrases}

\* the storage the clients start on: init_keys has run
InitKeysDone ==
    do_tx(None, [op |-> "init_keys", passphrase |-> "hunter2", key_name |-> "a"],
          1, 0, 0, <<>>).dir

InitConc ==
    /\ BlockIdle
    /\ FnIdle
    /\ TxIdle
    /\ kdf_dir = InitKeysDone
    /\ last = NoCall
    /\ nops = 1
    /\ client = [c \in Clients |-> [pc |-> "idle"]]

\* the versions of the calls a transaction has staged
StagedVers(staged) == {staged[i].ver : i \in 1..Len(staged)}

\* rand_hashid() for a new directory version: a value that is neither the
\* stored version nor one a transaction in flight has loaded or staged
FreshVerConc ==
    MinFresh((IF kdf_dir = None THEN {} ELSE {kdf_dir[1].ver})
             \cup UNION {IF client[c].pc = "commit"
                         THEN StagedVers(client[c].staged) ELSE {} :
                         c \in Clients})

\* the client calls an operation
ConcCall(c) ==
    /\ client[c].pc = "idle"
    /\ \E op \in ConcOps :
          client' = [client EXCEPT ![c] =
              [pc |-> "start_tx", op |-> op, now |-> nops + 1, i |-> 0,
               base |-> None, staged |-> <<>>, ret |-> None, res |-> "none"]]
    /\ nops' = nops + 1
    /\ UNCHANGED <<kdf_dir, last>>
    /\ UNCHANGED <<fnVars, blockVars, txVars>>

\* one attempt up to the match: start_tx, then the closure, which loads
\* the directory, edits the list and stages the new one; on an error of
\* the closure, abort and return
ConcAttempt(c) ==
    /\ client[c].pc = "start_tx"
    /\ \E cr \in {Closure(kdf_dir, client[c].op, client[c].now, FreshVerConc)} :
          client' = [client EXCEPT ![c] =
              IF do_tx_next(@.i, cr.res, FALSE).call = "abort"
              THEN [@ EXCEPT !.pc = "done", !.res = cr.res]
              ELSE [@ EXCEPT !.pc = "commit", !.base = kdf_dir,
                             !.staged = cr.staged, !.ret = cr.ret]]
    /\ UNCHANGED <<kdf_dir, last, nops>>
    /\ UNCHANGED <<fnVars, blockVars, txVars>>

\* storage.commit(tx) and what do_tx does with its answer
ConcCommit(c) ==
    /\ client[c].pc = "commit"
    /\ \E cm \in {Storage_commit(kdf_dir, client[c].staged)} :
          /\ kdf_dir' = cm.dir
          /\ \E nx \in {do_tx_next(client[c].i, "Ok", cm.ok)} :
                client' = [client EXCEPT ![c] =
                    IF nx.return
                    THEN [@ EXCEPT !.pc = "done", !.res = nx.res]
                    ELSE [@ EXCEPT !.pc = "start_tx", !.i = @ + 1]]
    /\ UNCHANGED <<last, nops>>
    /\ UNCHANGED <<fnVars, blockVars, txVars>>

NextConc ==
    \/ \E c \in Clients : ConcCall(c)
    \/ \E c \in Clients : ConcAttempt(c)
    \/ \E c \in Clients : ConcCommit(c)

SpecConc == InitConc /\ [][NextConc]_vars


----------------------------------------------------------------------------
(* server/crypt.rs: try_derive_key called on its own, on a list whose      *)
(* entries create_key made from known passphrases over known key chains    *)
(* (every entry wraps `everyone`, some wrap `root` as well, as after       *)
(* add_key and disassoc_group), or which another algorithm made.           *)

Algorithms == {SCRYPT_18_8_1, "scrypt-20-8-1"}

\* how one entry of the list was made
Makings ==
    [passphrase : Passphrases,
     groups     : {{GROUP_EVERYONE}, {GROUP_EVERYONE, GROUP_ROOT}},
     algorithm  : Algorithms,
     used       : {None}]

\* the internal keys of the list: those of the built-in groups and that of
\* one created group
DeriveChain ==
    CreateGroupLoop(KeyChain_generate_new(0, 1), <<"group">>, {0, 1})

\* the key chain the entry `making` describes wraps
ChainOf(making) == [g \in making.groups |-> DeriveChain[g]]

\* keys.insert(name, create_key(passphrase, chain, ...)) for each name, in
\* order, each with a fresh salt
RECURSIVE InsertAll(_, _, _)
InsertAll(keys, made, names) ==
    IF names = <<>> THEN keys
    ELSE IF Head(names) \notin DOMAIN made
    THEN InsertAll(keys, made, Tail(names))
    ELSE InsertAll(
             MapPut(keys, Head(names),
                 [create_key(made[Head(names)].passphrase,
                             ChainOf(made[Head(names)]), 1, None,
                             made[Head(names)].used,
                             MinFresh(UsedSalts(keys)))
                  EXCEPT !.algorithm = made[Head(names)].algorithm]),
             made, Tail(names))

InitDerive ==
    /\ BlockIdle
    /\ KmIdle
    /\ TxIdle
    /\ ConcIdle
    /\ \E S \in SUBSET Names : \E made \in [S -> Makings] :
          \E passphrase \in Passphrases :
             fn_args = [passphrase |-> passphrase,
                        made       |-> made,
                        keys       |-> InsertAll(<< >>, made, NameOrder)]
    /\ fn_ret = None

\* try_derive_key(passphrase, &keys)
TryDeriveKey ==
    /\ fn_ret = None
    /\ fn_ret' = Some([fn    |-> "try_derive_key",
                       value |-> try_derive_key(fn_args.passphrase, fn_args.keys)])
    /\ UNCHANGED <<fn_args, blockVars, kmVars, txVars, client>>

\* the closure of derive_key_chain run on the list
DeriveKeyChainClosure ==
    /\ fn_ret = None
    /\ fn_ret' = Some([fn    |-> "derive_key_chain",
                       value |-> derive_key_chain(KdfList(fn_args.keys),
                                                  fn_args.passphrase, 2)])
    /\ UNCHANGED <<fn_args, blockVars, kmVars, txVars, client>>

NextDerive ==
    \/ TryDeriveKey
    \/ DeriveKeyChainClosure

SpecDerive == InitDerive /\ [][NextDerive]_vars

----------------------------------------------------------------------------
(* server/keymgmt.rs: one operation called on a storage as earlier         *)
(* operations may have left it: no KDF list, or a list of one or two       *)
(* entries, each made from a passphrase, carrying `everyone` and any of    *)
(* `root` and "group", used or not, with `root` on some entry.             *)

EditMakings ==
    [passphrase : Passphrases,
     groups     : {G \in SUBSET Groups : GROUP_EVERYONE \in G},
     algorithm  : {SCRYPT_18_8_1},
     used       : {None, Some(2)}]

\* the directory init_keys and the edits before this one left
StoredList(made) ==
    Storage_commit(None,
        put_kdflist(KdfList(InsertAll(<< >>, made, NameOrder)), None, 0)).dir

InitEdit ==
    /\ BlockIdle
    /\ FnIdle
    /\ TxIdle
    /\ ConcIdle
    /\ last = NoCall
    /\ nops = MaxOps - 1
    /\ \/ kdf_dir = None
       \/ \E S \in SUBSET Names \ {{}} : \E made \in [S -> EditMakings] :
             /\ \E n \in S : GROUP_ROOT \in made[n].groups
             /\ kdf_dir = StoredList(made)

SpecEdit == InitEdit /\ [][Next]_vars

----------------------------------------------------------------------------
(* server/crypt.rs: the cipher of directory versions.  A HashId and a       *)
(* MasterKey are written out here as their 32 bytes.  TLC's integers have   *)
(* 32 bits, so a byte has ByteBits bits here and a u64 is eight of them;    *)
(* the masks and shifts of the code are those of this byte.                 *)

ByteBits == 2
\* the number of values of a u8: `& 0xFF` is `% ByteRange`, `>> 8` is
\* `\div ByteRange`
ByteRange == 2 ^ ByteBits

\* the number of values of a byte the ciphers work on (PKCS padding writes
\* the bytes 1..BLKSZ)
U8Range == 2 ^ 8

BLKSZ == 16
HashIdLen == 32

\* HashId::default()
HashId_default == [i \in 1..HashIdLen |-> 0]

\* a ^ b on bytes
RECURSIVE xor(_, _)
xor(a, b) ==
    IF a = 0 /\ b = 0 THEN 0
    ELSE ((a + b) % 2) + 2 * xor(a \div 2, b \div 2)

xor_block(a, b) == [i \in 1..BLKSZ |-> xor(a[i], b[i])]

\* MasterKey::dir_key(): &self.0[0..BLKSZ]
dir_key(master) == SubSeq(master, 1, BLKSZ)

\* AES-128 on one block: for each key a permutation of the blocks, here a
\* rotation of the block by one byte followed by the addition of the key
aes_encrypt_block(key, block) ==
    [i \in 1..BLKSZ |-> (block[(i % BLKSZ) + 1] + key[i] + 1) % U8Range]

\* the inverse permutation
aes_decrypt_block(key, block) ==
    [i \in 1..BLKSZ |->
        LET j == ((i + BLKSZ - 2) % BLKSZ) + 1
        IN  (block[j] + 2 * U8Range - key[j] - 1) % U8Range]

\* aes::cbc_encryptor(KeySize128, key, iv, NoPadding) run over whole blocks
RECURSIVE cbc_encrypt(_, _, _)
cbc_encrypt(key, iv, data) ==
    IF Len(data) = 0 THEN << >>
    ELSE LET c == aes_encrypt_block(key, xor_block(SubSeq(data, 1, BLKSZ), iv))
         IN  c \o cbc_encrypt(key, c, SubSeq(data, BLKSZ + 1, Len(data)))

\* aes::cbc_decryptor(KeySize128, key, iv, NoPadding) run over whole blocks
RECURSIVE cbc_decrypt(_, _, _)
cbc_decrypt(key, iv, data) ==
    IF Len(data) = 0 THEN << >>
    ELSE LET c == SubSeq(data, 1, BLKSZ)
         IN  xor_block(aes_decrypt_block(key, c), iv)
                \o cbc_decrypt(key, c, SubSeq(data, BLKSZ + 1, Len(data)))

\* iv[ix] = dir[ix] ^ dir[ix+BLKSZ] for ix in 0..8, the rest zero
dir_ver_iv(dir) ==
    [i \in 1..BLKSZ |-> IF i <= 8 THEN xor(dir[i], dir[i + BLKSZ]) ELSE 0]

\* for ix in 0..n { cleartext[ix] = (ver & 0xFF) as u8; ver >>= 8; }
RECURSIVE le_bytes(_, _)
le_bytes(ver, n) ==
    IF n = 0 THEN << >>
    ELSE <<ver % ByteRange>> \o le_bytes(ver \div ByteRange, n - 1)

\* the cleartext of a version with its low 7 bytes only
ver_cleartext_SevenBytes(ver) ==
    le_bytes(ver, 7) \o [i \in 1..(HashIdLen - 7) |-> 0]

\* the cleartext encrypt_dir_ver builds: HashId::default() with the
\* version in its first 8 bytes
ver_cleartext(ver) ==
    le_bytes(ver, 8) \o [i \in 1..(HashIdLen - 8) |-> 0]

\* crypt_stream reads the 32 bytes in one pass and the cryptor, without
\* padding, turns them into 32 bytes
encrypt_dir_ver(dir, ver, master) ==
    cbc_encrypt(dir_key(master), dir_ver_iv(dir), ver_cleartext(ver))

\* for ix in 0..8 { ver |= (cleartext[ix] as u64) << (ix * 8); }
RECURSIVE le_value(_)
le_value(bytes) ==
    IF Len(bytes) = 0 THEN 0
    ELSE Head(bytes) + ByteRange * le_value(Tail(bytes))

\* decrypt_dir_ver without the look at bytes 8..32
decrypt_dir_ver_NoPaddingCheck(dir, ciphertext, master) ==
    le_value(SubSeq(cbc_decrypt(dir_key(master), dir_ver_iv(dir), ciphertext),
                    1, 8))

decrypt_dir_ver(dir, ciphertext, master) ==
    LET cleartext == cbc_decrypt(dir_key(master), dir_ver_iv(dir), ciphertext)
    IN  IF \E i \in 9..HashIdLen : cleartext[i] # 0 THEN 0
        ELSE le_value(SubSeq(cleartext, 1, 8))

\* the largest u64
MaxVer == ByteRange ^ 8 - 1

Versions == {0, 1, 42, ByteRange - 1, ByteRange, MaxVer}

\* directory ids: bytes 0 and 16 enter the IV, byte 31 does not
DirIds ==
    {[i \in 1..HashIdLen |->
        IF i = 1 THEN a ELSE IF i = BLKSZ + 1 THEN b
        ELSE IF i = HashIdLen THEN c ELSE 0] : a, b, c \in {0, 1}}

\* master keys, as MasterKey::generate_new() may draw them
MasterKeys == {[i \in 1..HashIdLen |-> (i * k) % ByteRange] : k \in {0, 1, 3}}

InitVer ==
    /\ BlockIdle
    /\ KmIdle
    /\ TxIdle
    /\ ConcIdle
    /\ \E dir \in DirIds : \E ver \in Versions : \E master \in MasterKeys :
          fn_args = [dir |-> dir, ver |-> ver, master |-> master]
    /\ fn_ret = None

\* encrypt_dir_ver(&dir, ver, &master)
EncryptDirVer ==
    /\ fn_ret = None
    /\ fn_ret' = Some([fn    |-> "encrypt_dir_ver",
                       value |-> encrypt_dir_ver(fn_args.dir, fn_args.ver,
                                                 fn_args.master)])
    /\ UNCHANGED <<fn_args, blockVars, kmVars, txVars, client>>

\* decrypt_dir_ver(&dir, &ciphertext, &master) on the HashId
\* encrypt_dir_ver returned
DecryptDirVer ==
    /\ fn_ret # None
    /\ fn_ret[1].fn = "encrypt_dir_ver"
    /\ fn_ret' = Some([fn    |-> "decrypt_dir_ver",
                       value |-> decrypt_dir_ver(fn_args.dir, fn_ret[1].value,
                                                 fn_args.master)])
    /\ UNCHANGED <<fn_args, blockVars, kmVars, txVars, client>>

NextVer ==
    \/ EncryptDirVer
    \/ DecryptDirVer

SpecVer == InitVer /\ [][NextVer]_vars

----------------------------------------------------------------------------
(* server/crypt.rs: decrypt_dir_ver on any HashId a server may send.       *)

\* the HashId with byte i (from 1) changed
Altered(hashid, i) ==
    [hashid EXCEPT ![i] = (hashid[i] + 1) % U8Range]

\* encrypt_dir_ver's results for any directory, version and master key
ValidCiphertexts ==
    {encrypt_dir_ver(dir, ver, master) :
        dir \in DirIds, ver \in Versions, master \in MasterKeys}

\* cleartexts encrypt_dir_ver never builds: a byte past the version is set
PaddedCleartexts ==
    {[ver_cleartext(ver) EXCEPT ![i] = 1] :
        ver \in {0, 42}, i \in {9, BLKSZ, BLKSZ + 1, HashIdLen}}

\* what decrypt_dir_ver may be handed for a directory and a master key:
\* the all-zero HashId, results of encrypt_dir_ver (for this and for other
\* directories and keys), such results with one byte changed, and the
\* encryption of cleartexts whose padding is not zero
Ciphertexts(dir, master) ==
    {HashId_default}
      \cup ValidCiphertexts
      \cup {Altered(encrypt_dir_ver(dir, ver, master), i) :
              ver \in Versions, i \in {1, 8, 9, BLKSZ + 1, HashIdLen}}
      \cup {cbc_encrypt(dir_key(master), dir_ver_iv(dir), cleartext) :
              cleartext \in PaddedCleartexts}

InitGarbage ==
    /\ BlockIdle
    /\ KmIdle
    /\ TxIdle
    /\ ConcIdle
    /\ \E dir \in DirIds : \E master \in MasterKeys :
          \E ciphertext \in Ciphertexts(dir, master) :
             fn_args = [dir |-> dir, ciphertext |-> ciphertext,
                        master |-> master]
    /\ fn_ret = None

\* decrypt_dir_ver(&dir, &ciphertext, &master)
DecryptAnyDirVer ==
    /\ fn_ret = None
    /\ fn_ret' = Some([fn    |-> "decrypt_dir_ver",
                       value |-> decrypt_dir_ver(fn_args.dir,
                                                 fn_args.ciphertext,
                                                 fn_args.master)])
    /\ UNCHANGED <<fn_args, blockVars, kmVars, txVars, client>>

NextGarbage ==
    \/ DecryptAnyDirVer

SpecGarbage == InitGarbage /\ [][NextGarbage]_vars

----------------------------------------------------------------------------
(* server/crypt.rs: crypt_stream and the cipher of objects.  A cryptor is  *)
(* the key, the IV the next block is chained to, the padding mode and the  *)
(* bytes it was given and has not put out yet.                             *)

\* src_buf of crypt_stream holds StagingBlocks blocks (256 in the code)
StagingBlocks == 2
SrcBufLen == StagingBlocks * BLKSZ

Zeros(n) == [i \in 1..n |-> 0]

\* the whole blocks at the head of data
WholeBlocks(data) == SubSeq(data, 1, (Len(data) \div BLKSZ) * BLKSZ)

LastBlock(data) == SubSeq(data, Len(data) - BLKSZ + 1, Len(data))

\* blockmodes::PkcsPadding on encryption: n bytes of value n, 1 <= n <= BLKSZ
PkcsPad(data) ==
    data \o [i \in 1..(BLKSZ - (Len(data) % BLKSZ)) |-> BLKSZ - (Len(data) % BLKSZ)]

\* blockmodes::PkcsPadding on decryption: the last byte n says how many
\* bytes of value n end the cleartext
PkcsValid(clear) ==
    /\ Len(clear) > 0
    /\ clear[Len(clear)] \in 1..BLKSZ
    /\ \A i \in (Len(clear) - clear[Len(clear)] + 1)..Len(clear) :
          clear[i] = clear[Len(clear)]

PkcsStrip(clear) == SubSeq(clear, 1, Len(clear) - clear[Len(clear)])

\* aes::cbc_encryptor(KeySize128, key, iv, padding)
cbc_encryptor(key, iv, padding) ==
    [crypt |-> "encrypt", key |-> key, iv |-> iv, padding |-> padding,
     pending |-> << >>]

\* aes::cbc_decryptor(KeySize128, key, iv, padding)
cbc_decryptor(key, iv, padding) ==
    [crypt |-> "decrypt", key |-> key, iv |-> iv, padding |-> padding,
     pending |-> << >>]

\* Encryptor::encrypt(input, output, eof) on the bytes data = pending + input:
\* the whole blocks are encrypted, at eof the padded rest with them; without
\* padding a rest at eof is an error
Encryptor_encrypt(c, data, eof) ==
    LET clear == IF ~eof THEN WholeBlocks(data)
                 ELSE IF c.padding = "PkcsPadding" THEN PkcsPad(data)
                 ELSE data
    IN  IF Len(clear) % BLKSZ # 0
        THEN [res |-> "Err", out |-> << >>, cryptor |-> c]
        ELSE LET out == cbc_encrypt(c.key, c.iv, clear)
             IN  [res |-> "Ok", out |-> out,
                  cryptor |->
                     [c EXCEPT !.iv = IF Len(out) = 0 THEN c.iv
                                      ELSE LastBlock(out),
                               !.pending = SubSeq(data, Len(clear) + 1,
                                                  Len(data))]]

\* the bytes a decryptor puts out before eof: the whole blocks, but with
\* padding the last of them is kept until eof shows whether it is the last
DecryptNow(c, data) ==
    IF c.padding = "PkcsPadding" /\ Len(data) > 0
    THEN SubSeq(data, 1, ((Len(data) - 1) \div BLKSZ) * BLKSZ)
    ELSE WholeBlocks(data)

\* Decryptor::decrypt(input, output, eof) on the bytes data = pending + input
Decryptor_decrypt(c, data, eof) ==
    IF ~eof
    THEN [res |-> "Ok",
          out |-> cbc_decrypt(c.key, c.iv, DecryptNow(c, data)),
          cryptor |->
             [c EXCEPT !.iv = IF Len(DecryptNow(c, data)) = 0 THEN c.iv
                              ELSE LastBlock(DecryptNow(c, data)),
                       !.pending = SubSeq(data, Len(DecryptNow(c, data)) + 1,
                                          Len(data))]]
    ELSE IF Len(data) % BLKSZ # 0
    THEN [res |-> "Err", out |-> << >>, cryptor |-> c]
    ELSE LET clear == cbc_decrypt(c.key, c.iv, data)
         IN  IF c.padding # "PkcsPadding"
             THEN [res |-> "Ok", out |-> clear, cryptor |-> c]
             ELSE IF PkcsValid(clear)
             THEN [res |-> "Ok", out |-> PkcsStrip(clear), cryptor |-> c]
             ELSE [res |-> "Err", out |-> << >>, cryptor |-> c]

\* Cryptor::crypt of WEncryptor and WDecryptor
Cryptor_crypt(c, input, eof) ==
    IF c.crypt = "encrypt" THEN Encryptor_encrypt(c, c.pending \o input, eof)
    ELSE Decryptor_decrypt(c, c.pending \o input, eof)

\* crypt_stream taking the first pass for the last
crypt_stream_eof_AfterFirstPass(src) == Len(src) >= 0

\* one pass of crypt_stream: the inner loop reads until src_buf is full or a
\* read returns 0, so end of input is only seen by a pass that did not fill
\* the buffer
crypt_stream_eof(src) == Len(src) < SrcBufLen

\* crypt_stream(dst, src, crypt, panic_on_crypt_err): what dst has received
\* when it returns.  After an error of the cryptor that does not panic, dst
\* receives zero bytes in place of the input the cryptor did not consume.
RECURSIVE crypt_stream(_, _, _, _)
crypt_stream(dst, src, crypt, panic_on_crypt_err) ==
    \* the pass's crypt.crypt(dstrbuf, src_buf[..nread], eof)
    LET r == Cryptor_crypt(crypt, SubSeq(src, 1, Min(Len(src), SrcBufLen)),
                           crypt_stream_eof(src))
    IN  IF r.res = "Err" /\ panic_on_crypt_err
        THEN [res |-> "Panic", dst |-> dst]
        ELSE IF r.res = "Err"
        THEN [res |-> "Ok", dst |-> dst \o Zeros(Min(Len(src), SrcBufLen))]
        ELSE IF crypt_stream_eof(src)
        THEN [res |-> "Ok", dst |-> dst \o r.out]
        ELSE crypt_stream(dst \o r.out,
                          SubSeq(src, SrcBufLen + 1, Len(src)),
                          r.cryptor, panic_on_crypt_err)

\* MasterKey::obj_key(): &self.0[BLKSZ..BLKSZ*2]
obj_key(master) == SubSeq(master, BLKSZ + 1, BLKSZ * 2)

split_key_and_iv(key_and_iv) ==
    [key |-> SubSeq(key_and_iv, 1, BLKSZ),
     iv  |-> SubSeq(key_and_iv, BLKSZ + 1, HashIdLen)]

\* write_cbc_prefix(dst, master) with key_and_iv the 32 bytes rand() drew:
\* the bytes written to dst
write_cbc_prefix(key_and_iv, master) ==
    crypt_stream(<< >>, key_and_iv,
                 cbc_encryptor(master, Zeros(BLKSZ), "NoPadding"), TRUE).dst

\* read_cbc_prefix(src, master): read_exact of 32 bytes, then the key and
\* the IV they decrypt to
read_cbc_prefix(src, master) ==
    IF Len(src) < HashIdLen THEN [res |-> "Io"]
    ELSE [res |-> "Ok",
          key_and_iv |->
             split_key_and_iv(
                crypt_stream(<< >>, SubSeq(src, 1, HashIdLen),
                             cbc_decryptor(master, Zeros(BLKSZ), "NoPadding"),
                             FALSE).dst),
          rest |-> SubSeq(src, HashIdLen + 1, Len(src))]

\* encrypt_obj(dst, src, master): what dst, empty before, has received
encrypt_obj(src, master, key_and_iv) ==
    crypt_stream(write_cbc_prefix(key_and_iv, obj_key(master)), src,
                 cbc_encryptor(split_key_and_iv(key_and_iv).key,
                               split_key_and_iv(key_and_iv).iv,
                               "PkcsPadding"),
                 TRUE)

\* decrypt_obj(dst, src, master): the result and what dst has received
decrypt_obj(src, master) ==
    LET prefix == read_cbc_prefix(src, obj_key(master))
    IN  IF prefix.res # "Ok" THEN [res |-> prefix.res, dst |-> << >>]
        ELSE crypt_stream(<< >>, prefix.rest,
                          cbc_decryptor(prefix.key_and_iv.key,
                                        prefix.key_and_iv.iv, "PkcsPadding"),
                          FALSE)

\* the lengths of objects: none, less than a block, a block, more, and
\* around the staging buffer
ObjectLengths ==
    {0, 1, BLKSZ - 1, BLKSZ, BLKSZ + 1,
     SrcBufLen - 1, SrcBufLen, SrcBufLen + 1, 2 * SrcBufLen - 1}

\* objects: all zero, and bytes counting down to 1 (the end reads as padding)
Objects ==
    {Zeros(n) : n \in ObjectLengths}
      \cup {[i \in 1..n |-> (n - i + 1) % U8Range] : n \in ObjectLengths}

\* the 32 bytes rand() fills key_and_iv with
KeyAndIvs == {[i \in 1..HashIdLen |-> (i * k) % U8Range] : k \in {0, 37}}

InitObj ==
    /\ BlockIdle
    /\ KmIdle
    /\ TxIdle
    /\ ConcIdle
    /\ \E data \in Objects : \E master \in MasterKeys :
          \E key_and_iv \in KeyAndIvs :
             fn_args = [data |-> data, master |-> master,
                        key_and_iv |-> key_and_iv]
    /\ fn_ret = None

\* encrypt_obj(&mut ciphertext, data, &master)
EncryptObj ==
    /\ fn_ret = None
    /\ fn_ret' = Some([fn    |-> "encrypt_obj",
                       value |-> encrypt_obj(fn_args.data, fn_args.master,
                                             fn_args.key_and_iv)])
    /\ UNCHANGED <<fn_args, blockVars, kmVars, txVars, client>>

\* decrypt_obj(&mut cleartext, &ciphertext[..], &master)
DecryptObj ==
    /\ fn_ret # None
    /\ fn_ret[1].fn = "encrypt_obj"
    /\ fn_ret[1].value.res = "Ok"
    /\ fn_ret' = Some([fn    |-> "decrypt_obj",
                       value |-> decrypt_obj(fn_ret[1].value.dst,
                                             fn_args.master)])
    /\ UNCHANGED <<fn_args, blockVars, kmVars, txVars, client>>

NextObj ==
    \/ EncryptObj
    \/ DecryptObj

SpecObj == InitObj /\ [][NextObj]_vars

----------------------------------------------------------------------------
(* server/crypt.rs: the cipher of directories, written whole and appended  *)
(* to.                                                                     *)

\* encrypt_whole_dir(dst, src, master): what dst, empty before, has
\* received, and the session key returned
encrypt_whole_dir(src, master, key_and_iv) ==
    [key |-> split_key_and_iv(key_and_iv).key] @@
    crypt_stream(write_cbc_prefix(key_and_iv, dir_key(master)), src,
                 cbc_encryptor(split_key_and_iv(key_and_iv).key,
                               split_key_and_iv(key_and_iv).iv, "NoPadding"),
                 TRUE)

\* encrypt_append_dir(dst, src, key, iv): what dst holds afterwards
encrypt_append_dir(dst, src, key, iv) ==
    crypt_stream(dst, src, cbc_encryptor(key, iv, "NoPadding"), TRUE)

\* the IV taken from the first 16 bytes of the ciphertext
dir_append_iv_FirstBlock(data) == SubSeq(data, 1, BLKSZ)

\* dir_append_iv(data): the last 16 bytes of the ciphertext so far
dir_append_iv(data) == LastBlock(data)

\* decrypt_whole_dir(dst, src, master): the result, what dst has received
\* and the session key returned
decrypt_whole_dir(src, master) ==
    LET prefix == read_cbc_prefix(src, dir_key(master))
    IN  IF prefix.res # "Ok" THEN [res |-> prefix.res, dst |-> << >>]
        ELSE [key |-> prefix.key_and_iv.key] @@
             crypt_stream(<< >>, prefix.rest,
                          cbc_decryptor(prefix.key_and_iv.key,
                                        prefix.key_and_iv.iv, "NoPadding"),
                          FALSE)

\* most chunks a directory is written in
MaxChunks == 3

\* the lengths of chunks: none, one block, the staging buffer, and more
ChunkLengths == {0, BLKSZ, SrcBufLen, SrcBufLen + BLKSZ}

\* chunks of directory data
Chunks == {[i \in 1..n |-> (3 * i + n) % U8Range] : n \in ChunkLengths}

InitDir ==
    /\ BlockIdle
    /\ KmIdle
    /\ TxIdle
    /\ ConcIdle
    /\ \E n \in 1..MaxChunks : \E chunks \in [1..n -> Chunks] :
          \E master \in MasterKeys : \E key_and_iv \in KeyAndIvs :
             fn_args = [chunks |-> chunks, master |-> master,
                        key_and_iv |-> key_and_iv]
    /\ fn_ret = None

\* sk = encrypt_whole_dir(&mut ciphertext, chunks[0], &master)
EncryptWholeDir ==
    /\ fn_ret = None
    /\ \E r \in {encrypt_whole_dir(fn_args.chunks[1], fn_args.master,
                                   fn_args.key_and_iv)} :
          fn_ret' = Some([fn |-> "encrypt_whole_dir", res |-> r.res,
                          ciphertext |-> r.dst, sk |-> r.key, written |-> 1])
    /\ UNCHANGED <<fn_args, blockVars, kmVars, txVars, client>>

\* iv = dir_append_iv(&ciphertext);
\* encrypt_append_dir(&mut ciphertext, next chunk, &sk, &iv)
EncryptAppendDir ==
    /\ fn_ret # None
    /\ fn_ret[1].fn \in {"encrypt_whole_dir", "encrypt_append_dir"}
    /\ fn_ret[1].res = "Ok"
    /\ fn_ret[1].written < Len(fn_args.chunks)
    /\ \E r \in {encrypt_append_dir(fn_ret[1].ciphertext,
                                    fn_args.chunks[fn_ret[1].written + 1],
                                    fn_ret[1].sk,
                                    dir_append_iv(fn_ret[1].ciphertext))} :
          fn_ret' = Some([fn |-> "encrypt_append_dir", res |-> r.res,
                          ciphertext |-> r.dst, sk |-> fn_ret[1].sk,
                          written |-> fn_ret[1].written + 1])
    /\ UNCHANGED <<fn_args, blockVars, kmVars, txVars, client>>

\* decrypt_whole_dir(&mut cleartext, &ciphertext[..], &master)
DecryptWholeDir ==
    /\ fn_ret # None
    /\ fn_ret[1].fn \in {"encrypt_whole_dir", "encrypt_append_dir"}
    /\ fn_ret[1].res = "Ok"
    /\ fn_ret[1].written = Len(fn_args.chunks)
    /\ fn_ret' = Some([fn    |-> "decrypt_whole_dir",
                       value |-> decrypt_whole_dir(fn_ret[1].ciphertext,
                                                   fn_args.master),
                       sk    |-> fn_ret[1].sk])
    /\ UNCHANGED <<fn_args, blockVars, kmVars, txVars, client>>

NextDir ==
    \/ EncryptWholeDir
    \/ EncryptAppendDir
    \/ DecryptWholeDir

SpecDir == InitDir /\ [][NextDir]_vars

----------------------------------------------------------------------------
(* cli/config.rs: PassphraseConfig::read_passphrase.                       *)

\* b'\n' and b'\r'
LF == 10
CR == 13

\* the bytes a passphrase source may deliver: LF, CR, ' ', '2', 'h'
PassBytes == {LF, CR, 32, 50, 104}

\* the longest value read_passphrase_impl delivers
MaxPassLen == 4

\* a variant of strip_trailing_newlines that pops one newline at most
strip_trailing_newlines_PopsOnce(data) ==
    IF data # <<>> /\ (data[Len(data)] = LF \/ data[Len(data)] = CR)
    THEN SubSeq(data, 1, Len(data) - 1)
    ELSE data

\* while the last byte is '\n' or '\r', pop it
RECURSIVE strip_trailing_newlines(_)
strip_trailing_newlines(data) ==
    IF data # <<>> /\ (data[Len(data)] = LF \/ data[Len(data)] = CR)
    THEN strip_trailing_newlines(SubSeq(data, 1, Len(data) - 1))
    ELSE data

\* read_passphrase on what read_passphrase_impl returned
read_passphrase(impl) ==
    IF impl.res = "Err"
    THEN [res |-> "Err", err |-> "impl", data |-> <<>>]
    ELSE LET data == strip_trailing_newlines(impl.data)
         IN  IF data = <<>>
             THEN [res |-> "Err", err |-> "Password is empty", data |-> <<>>]
             ELSE [res |-> "Ok", err |-> "", data |-> data]

\* what read_passphrase_impl may return
ImplResults ==
    {[res |-> "Ok", data |-> d] : d \in SeqsUpTo(PassBytes, MaxPassLen)}
        \cup {[res |-> "Err", data |-> <<>>]}

InitPass ==
    /\ BlockIdle
    /\ KmIdle
    /\ TxIdle
    /\ ConcIdle
    /\ \E impl \in ImplResults : fn_args = [impl |-> impl]
    /\ fn_ret = None

\* read_passphrase when read_passphrase_impl delivered a value
ReadPassphrase ==
    /\ fn_ret = None
    /\ fn_args.impl.res = "Ok"
    /\ fn_ret' = Some([fn    |-> "read_passphrase",
                       value |-> read_passphrase(fn_args.impl)])
    /\ UNCHANGED <<fn_args, blockVars, kmVars, txVars, client>>

\* read_passphrase when read_passphrase_impl failed: `?` returns its error
ReadPassphraseImplError ==
    /\ fn_ret = None
    /\ fn_args.impl.res = "Err"
    /\ fn_ret' = Some([fn    |-> "read_passphrase",
                       value |-> read_passphrase(fn_args.impl)])
    /\ UNCHANGED <<fn_args, blockVars, kmVars, txVars, client>>

NextPass ==
    \/ ReadPassphrase
    \/ ReadPassphraseImplError

SpecPass == InitPass /\ [][NextPass]_vars

----------------------------------------------------------------------------
(* Claims about the block transfer, checked under SpecBlock *)

\* The bytes of block number i (from 1) of the source.
BlockBytes(i) ==
    SubSeq(source, (i - 1) * block_size + 1, Min(i * block_size, Len(source)))

\* C1: block round trip.  Whenever blocks_to_stream has run to its end on
\* the BlockList stream_to_blocks returned, fetching the blocks as the sink
\* stored them and meeting no I/O failure, it returned Ok, the bytes it
\* wrote are the source's, and the BlockList's size is the source's length.
C1_BlockRoundTrip ==
    (b2s_pc = "done" /\ b2s_res # "Io") =>
        /\ b2s_res = "Ok"
        /\ output = source
        /\ blocklist.size = Len(source)

\* C2: every call of the sink carries exactly the bytes read for that block
\* (1..block_size of them, in source order) and their HMAC under the secret.
C2_SinkGetsBlockBytes ==
    \A i \in 1..Len(sunk) :
        /\ sunk[i].data = BlockBytes(i)
        /\ Len(sunk[i].data) \in 1..block_size
        /\ sunk[i].hash = Hmac(secret, sunk[i].data)

----------------------------------------------------------------------------
(* Claims about the key-management operations, checked under Spec *)

\* the entries of the stored KDF list (none when there is no list)
StoredKeys ==
    IF kdf_dir = None THEN << >>
    ELSE fourleaf_from_slice(kdf_dir[1].data).keys

\* the name of the operation the last call was, and whether it failed
LastOp == last.op.op
Failed == last.res \notin {"Ok", "none"}

\* C3: KdfList never empty.  After every operation, whether it succeeded or
\* failed, a stored KDF list has at least one entry; and del_key naming the
\* only entry of the list fails with WouldRemoveLastKdfEntry.
C3_KdfListNeverEmpty ==
    [][/\ (kdf_dir' # None => DOMAIN StoredKeys' # {})
       /\ (LastOp' = "del_key" /\ DOMAIN StoredKeys = {last'.op.name})
              => last'.res = "WouldRemoveLastKdfEntry"]_vars

\* C3 witness: del_key of the only entry was refused and the entry is there
C3_Witness ==
    /\ LastOp = "del_key"
    /\ last.res = "WouldRemoveLastKdfEntry"
    /\ DOMAIN StoredKeys = {last.op.name}

\* the key of group g unwrapped from the entry, by every passphrase that
\* derives the entry
Unwrapped(entry, g) ==
    {try_derive_key_single(p, entry)[1][g] :
        p \in {q \in Passphrases : try_derive_key_single(q, entry) # None}}

C5_NoGroupLeftUnreferenced ==
    [][\A g \in Groups :
          Carried(StoredKeys, g) => Carried(StoredKeys', g)]_vars

\* C5, amended: a group carried by some entry before an operation is
\* carried by some entry after it, unless the operation is a successful
\* destroy_group that names the group.
C5_OnlyDestroyGroupUnreferences ==
    [][\A g \in Groups :
          (Carried(StoredKeys, g) /\ ~Carried(StoredKeys', g))
              => /\ LastOp' = "destroy_group"
                 /\ last'.res = "Ok"
                 /\ \E i \in 1..Len(last'.op.names) : last'.op.names[i] = g]_vars

\* C5 witness: destroy_group succeeded and no entry carries the group now
C5_Witness ==
    /\ LastOp = "destroy_group"
    /\ last.res = "Ok"
    /\ last.op.names[1] = "group"
    /\ DOMAIN StoredKeys # {}
    /\ ~Carried(StoredKeys, "group")

\* C6 as the spec states it: every entry of the stored list carries both
\* `everyone` and `root`.
C6_BuiltinGroupsOnEveryEntry ==
    \A n \in DOMAIN StoredKeys :
        {GROUP_EVERYONE, GROUP_ROOT} \subseteq DOMAIN StoredKeys[n].groups

\* C6, amended: every entry of the stored list carries `everyone`, and
\* `root` is carried by at least one entry of a stored list.
C6_EveryoneOnEveryEntryRootOnSome ==
    /\ \A n \in DOMAIN StoredKeys :
          GROUP_EVERYONE \in DOMAIN StoredKeys[n].groups
    /\ kdf_dir # None => Carried(StoredKeys, GROUP_ROOT)

\* C6 witness: disassoc_group took `root` from an entry
C6_Witness ==
    /\ LastOp = "disassoc_group"
    /\ last.res = "Ok"
    /\ GROUP_ROOT \notin DOMAIN StoredKeys[last.op.key].groups
    /\ GROUP_EVERYONE \in DOMAIN StoredKeys[last.op.key].groups

\* C7: a failed operation changes nothing.  Whenever an operation returns
\* an error, the stored directory (list, version, length) is what it was
\* before the call, no rmdir, mkdir or commit was issued, and if the
\* transaction was started it was aborted.
C7_FailedOperationChangesNothing ==
    [][Failed' =>
          /\ kdf_dir' = kdf_dir
          /\ \A i \in 1..Len(last'.calls) :
                last'.calls[i] \notin {"rmdir", "mkdir", "commit"}
          /\ last'.calls # <<>> =>
                last'.calls = <<"start_tx", "getdir", "abort">>]_vars

\* C7 witness: disassoc_group took `root` off the entry in memory, then
\* failed; the stored entry still carries `root`
C7_Witness ==
    /\ LastOp = "disassoc_group"
    /\ last.res = "WouldDisassocLastKeyFromGroup"
    /\ last.calls = <<"start_tx", "getdir", "abort">>
    /\ last.op.names = <<GROUP_ROOT>>
    /\ GROUP_ROOT \in DOMAIN StoredKeys[last.op.key].groups

----------------------------------------------------------------------------
(* Claims about the transaction loop, checked under SpecTx *)

\* the positions in tx_calls of the calls of one kind
TxStarts == {k \in 1..Len(tx_calls) : tx_calls[k].call = "start_tx"}
TxAborts == {k \in 1..Len(tx_calls) : tx_calls[k].call = "abort"}
TxConflicts ==
    {k \in 1..Len(tx_calls) : tx_calls[k] = StorageCall("commit", "false")}
TxCommitted ==
    {k \in 1..Len(tx_calls) : tx_calls[k] = StorageCall("commit", "true")}

TxReturned(res) == tx_res # None /\ tx_res[1].res = res

\* what f(tx) returned in the attempt under way was an error
TxClosureFailed == tx_f # None /\ tx_f[1].res # "Ok"

\* C8: bounded retry.  do_tx starts at most 16 transactions and is done
\* once 16 attempts are over; it returns Ok, with the value of that attempt,
\* at the first commit that reports success; after a commit that reported
\* a conflict the next call is start_tx; and it returns TooManyTxRetries
\* exactly when 16 commits reported conflict.
C8_BoundedRetry ==
    /\ Cardinality(TxStarts) <= TX_RETRIES
    /\ Len(tx_calls) <= 2 * TX_RETRIES
    /\ tx_pc # "done" => tx_i < TX_RETRIES
    /\ TxReturned("TooManyTxRetries")
          <=> (tx_pc = "done" /\ Cardinality(TxConflicts) = TX_RETRIES)
    /\ TxReturned("Ok") <=> TxCommitted # {}
    /\ TxReturned("Ok") =>
          /\ TxCommitted = {Len(tx_calls)}
          /\ tx_res[1].r = tx_f[1].r
    /\ \A k \in TxConflicts :
          IF k < Len(tx_calls) THEN tx_calls[k + 1].call = "start_tx"
          ELSE tx_pc = "start_tx" \/ TxReturned("TooManyTxRetries")

\* C8 witness: 16 attempts, each ending in a conflict, and TooManyTxRetries
C8_Witness ==
    /\ tx_pc = "done"
    /\ TxReturned("TooManyTxRetries")
    /\ Cardinality(TxStarts) = TX_RETRIES
    /\ Cardinality(TxConflicts) = TX_RETRIES

\* C9: an error of the closure ends do_tx.  Once f(tx) has returned an
\* error, the only call made is one abort, straight after the start_tx of
\* that attempt (no commit, no further start_tx), and do_tx returns the
\* closure's error whatever abort returned; abort is called at most once.
C9_ClosureErrorAborts ==
    /\ Cardinality(TxAborts) <= 1
    /\ TxClosureFailed =>
          /\ tx_pc \in {"abort", "done"}
          /\ tx_pc = "abort" =>
                /\ tx_calls[Len(tx_calls)] = StorageCall("start_tx", "Ok")
                /\ TxAborts = {}
          /\ tx_pc = "done" =>
                /\ tx_res = TxResult(tx_f[1].res, None)
                /\ TxAborts = {Len(tx_calls)}
                /\ tx_calls[Len(tx_calls) - 1] = StorageCall("start_tx", "Ok")

\* C9 witness: in a retry the closure failed, abort failed too, and do_tx
\* returned the closure's error
C9_Witness ==
    /\ tx_pc = "done"
    /\ tx_i > 0
    /\ TxClosureFailed
    /\ tx_calls[Len(tx_calls)] = StorageCall("abort", "Err")
    /\ tx_res = TxResult(tx_f[1].res, None)

----------------------------------------------------------------------------
(* Claims about concurrent writers, checked under SpecConc *)

\* client c's operation has returned Ok
ConcOk(c) == client[c].pc = "done" /\ client[c].res = "Ok"

\* what the operation of client c writes: an entry name, or the `used` time
Target(c) ==
    IF client[c].op.op = "add_key" THEN client[c].op.new_name
    ELSE IF client[c].op.op = "del_key" THEN client[c].op.name
    ELSE "used"

\* the stored list shows what client c's operation did
Reflects(c) ==
    CASE client[c].op.op = "add_key" ->
            /\ client[c].op.new_name \in DOMAIN StoredKeys
            /\ try_derive_key_single(client[c].op.new_passphrase,
                                     StoredKeys[client[c].op.new_name]) # None
      [] client[c].op.op = "del_key" ->
            client[c].op.name \notin DOMAIN StoredKeys
      [] client[c].op.op = "derive_key_chain" ->
            \E n \in DOMAIN StoredKeys :
                StoredKeys[n].used = Some(client[c].now)

\* every operation that returned Ok shows in the stored list, unless the
\* other client's operation writes the same entry (or the same `used`)
AllReflected ==
    \A c \in Clients :
        (/\ ConcOk(c)
         /\ \A d \in Clients \ {c} :
               client[d].pc = "idle" \/ Target(d) # Target(c))
            => Reflects(c)

\* C10: no lost update under concurrent writers.  Whenever the stored
\* directory changes, it is by the commit of a client whose edit was
\* computed from the directory (list, version, length) being replaced, and
\* that client returns Ok; and after every step the stored list reflects
\* every operation that returned Ok.
C10_NoLostUpdate ==
    [][/\ kdf_dir' # kdf_dir =>
             \E c \in Clients :
                 /\ client[c].pc = "commit"
                 /\ client[c].base = kdf_dir
                 /\ client'[c].pc = "done"
                 /\ client'[c].res = "Ok"
       /\ AllReflected']_vars

\* C10 witness: both clients added a key, under different names, one of
\* them after a conflict and a retry, and both entries are stored
C10_Witness ==
    /\ \A c \in Clients : ConcOk(c) /\ client[c].op.op = "add_key"
    /\ client[1].op.new_name # client[2].op.new_name
    /\ \E c \in Clients : client[c].i > 0
    /\ {client[1].op.new_name, client[2].op.new_name} \subseteq DOMAIN StoredKeys

----------------------------------------------------------------------------
(* Claims about blocks_to_stream on altered input, checked under SpecTamper *)

\* C11: tamper detection.  Whenever blocks_to_stream has run to its end on
\* a BlockList and stored blocks produced by stream_to_blocks of which the
\* content of a stored block was changed, a member of `blocks` was changed
\* or `blocks` was reordered, and it met no I/O failure, it failed with
\* InvalidHmac: it never returned Ok.
C11_TamperingDetected ==
    (Tampered /\ b2s_pc = "done" /\ b2s_res # "Io") => b2s_res = "InvalidHmac"

\* the HMAC recomputed over input.blocks differs from input.total
TotalMismatch == TotalOf(secret, blocklist.blocks) # blocklist.total

\* C12: when the HMAC recomputed over `blocks` differs from input.total,
\* blocks_to_stream, once past the sanity check, has failed with InvalidHmac
\* with no byte written to the output and the loop that invokes block_fetch
\* never entered.
C12_TotalCheckedFirst ==
    (TotalMismatch /\ b2s_pc \notin {"idle", "check"}) =>
        /\ b2s_pc = "done"
        /\ b2s_res = "InvalidHmac"
        /\ output = <<>>
        /\ idx = 0
        /\ reader = <<>>

\* a reordered BlockList of two stored blocks was refused
C12_Witness ==
    /\ TotalMismatch
    /\ b2s_pc = "done"
    /\ b2s_res = "InvalidHmac"
    /\ Len(blocklist.blocks) = 2
    /\ blocklist.blocks = <<blocks[2], blocks[1]>>
    /\ \A i \in 1..2 : blocklist.blocks[i] \in DOMAIN store

----------------------------------------------------------------------------
(* Claims about key derivation, checked under SpecDerive *)

\* the names of the entries create_key made from the passphrase tried, in
\* map order
CreatedFromPassphrase ==
    SelectSeq(NameOrder,
              LAMBDA n : /\ n \in DOMAIN fn_args.made
                         /\ fn_args.made[n].passphrase = fn_args.passphrase
                         /\ fn_args.made[n].algorithm = SCRYPT_18_8_1)

Returned(fn) == fn_ret # None /\ fn_ret[1].fn = fn

----------------------------------------------------------------------------
(* Claims about single operations, checked under SpecEdit *)

\* the entries of `keys` other than `name`
Others(keys, name) == [n \in DOMAIN keys \ {name} |-> keys[n]]

\* every group on the entry `name` is carried by another entry as well
GroupsCarriedElsewhere(keys, name) ==
    \A g \in DOMAIN keys[name].groups : Carried(Others(keys, name), g)

\* C14: del_key on an existing list succeeds exactly when the entry exists,
\* the list has at least two entries and every group on `name` is carried
\* by another entry; otherwise it fails with KeyNotInKdfList,
\* WouldRemoveLastKdfEntry or WouldDisassocLastKeyFromGroup, checked in that
\* order; on success exactly that entry is removed and every other entry is
\* unchanged.
C14_DelKey ==
    [][(LastOp' = "del_key" /\ kdf_dir # None) =>
          LET name == last'.op.name
          IN  /\ last'.res =
                    IF name \notin DOMAIN StoredKeys
                    THEN "KeyNotInKdfList"
                    ELSE IF Cardinality(DOMAIN StoredKeys) < 2
                    THEN "WouldRemoveLastKdfEntry"
                    ELSE IF ~GroupsCarriedElsewhere(StoredKeys, name)
                    THEN "WouldDisassocLastKeyFromGroup"
                    ELSE "Ok"
              /\ last'.res = "Ok" => StoredKeys' = Others(StoredKeys, name)
              /\ last'.res # "Ok" => StoredKeys' = StoredKeys]_vars

\* del_key removed one of two entries, the other carrying all its groups
C14_Witness ==
    /\ LastOp = "del_key"
    /\ last.res = "Ok"
    /\ DOMAIN StoredKeys = {"b"}
    /\ last.op.name = "a"
    /\ DOMAIN StoredKeys["b"].groups = Groups

\* the passphrase derives the entry
Derives(passphrase, entry) == try_derive_key_single(passphrase, entry) # None

\* change_key was called on an existing list and names, or by leaving the
\* name out of a one-entry list means, an existing entry
ChangeKeyOfEntry ==
    /\ LastOp' = "change_key"
    /\ kdf_dir # None
    /\ IF last'.op.name # None
       THEN last'.op.name[1] \in DOMAIN StoredKeys
       ELSE Cardinality(DOMAIN StoredKeys) = 1

\* the name of that entry
ChangedName ==
    IF last'.op.name # None THEN last'.op.name[1]
    ELSE CHOOSE n \in DOMAIN StoredKeys : TRUE

\* the key chain old_passphrase derives from the other entries
ChainFromOthers ==
    try_derive_key(last'.op.old_passphrase, Others(StoredKeys, ChangedName))

\* C15: change_key passphrase-mismatch rule.  For an existing entry: when
\* old_passphrase derives the entry the call succeeds whatever the flag;
\* when it derives only other entries the call fails with
\* ChangeKeyWithPassphraseMismatch if the flag is false and goes on (to Ok
\* or KeyNotInGroup) if it is true; when it derives no entry the call fails
\* with PassphraseNotInKdfList.
C15_ChangeKeyMismatchRule ==
    [][ChangeKeyOfEntry =>
          IF Derives(last'.op.old_passphrase, StoredKeys[ChangedName])
          THEN last'.res = "Ok"
          ELSE IF ChainFromOthers = None
          THEN last'.res = "PassphraseNotInKdfList"
          ELSE IF ~last'.op.allow_change_via_other_passphrase
          THEN last'.res = "ChangeKeyWithPassphraseMismatch"
          ELSE last'.res \in {"Ok", "KeyNotInGroup"}]_vars

\* change_key of entry `a` with the passphrase of `b`, which does not derive
\* `a`, was refused as the flag was false
C15_Witness ==
    /\ LastOp = "change_key"
    /\ last.res = "ChangeKeyWithPassphraseMismatch"
    /\ last.op.name = Some("a")
    /\ ~last.op.allow_change_via_other_passphrase
    /\ DOMAIN StoredKeys = {"a", "b"}
    /\ ~Derives(last.op.old_passphrase, StoredKeys["a"])
    /\ Derives(last.op.old_passphrase, StoredKeys["b"])

\* what a successful change_key leaves, but for what old_passphrase derives
\* afterwards: the entry is one new_passphrase derives, `created` and `used`
\* are the old entry's, `updated` is the time of the call, the groups are
\* the old entry's, each wrapping the same internal key, and every other
\* entry is as it was
ChangeKeyReplacesEntry ==
    /\ DOMAIN StoredKeys' = DOMAIN StoredKeys
    /\ Derives(last'.op.new_passphrase, StoredKeys'[ChangedName])
    /\ StoredKeys'[ChangedName].created = StoredKeys[ChangedName].created
    /\ StoredKeys'[ChangedName].updated = Some(UTC_now)
    /\ StoredKeys'[ChangedName].used = StoredKeys[ChangedName].used
    /\ DOMAIN StoredKeys'[ChangedName].groups = DOMAIN StoredKeys[ChangedName].groups
    /\ \A g \in DOMAIN StoredKeys[ChangedName].groups :
          /\ Unwrapped(StoredKeys'[ChangedName], g) # {}
          /\ Unwrapped(StoredKeys'[ChangedName], g) = Unwrapped(StoredKeys[ChangedName], g)
    /\ Others(StoredKeys', ChangedName) = Others(StoredKeys, ChangedName)

\* C16 as stated: after a successful change_key the named entry is replaced
\* as ChangeKeyReplacesEntry says, and old_passphrase does not derive it.
C16_ChangeKeyReplacesEntry ==
    [][(LastOp' = "change_key" /\ last'.res = "Ok") =>
          /\ ChangeKeyReplacesEntry
          /\ ~Derives(last'.op.old_passphrase, StoredKeys'[ChangedName])]_vars

\* C16 amended: after a successful change_key the named entry is replaced
\* as ChangeKeyReplacesEntry says, and old_passphrase derives it exactly
\* when new_passphrase is old_passphrase.
C16_OldPassphraseDerivesOnlyIfSame ==
    [][(LastOp' = "change_key" /\ last'.res = "Ok") =>
          /\ ChangeKeyReplacesEntry
          /\ (Derives(last'.op.old_passphrase, StoredKeys'[ChangedName])
                <=> last'.op.old_passphrase = last'.op.new_passphrase)]_vars

\* entry `a`, used before and carrying `everyone` alone, was changed to a
\* new passphrase with the passphrase of `b`, which carries every group
C16_Witness ==
    /\ LastOp = "change_key"
    /\ last.res = "Ok"
    /\ last.op.name = Some("a")
    /\ last.op.old_passphrase # last.op.new_passphrase
    /\ DOMAIN StoredKeys = {"a", "b"}
    /\ Derives(last.op.new_passphrase, StoredKeys["a"])
    /\ Derives(last.op.old_passphrase, StoredKeys["b"])
    /\ DOMAIN StoredKeys["a"].groups = {GROUP_EVERYONE}
    /\ DOMAIN StoredKeys["b"].groups = Groups
    /\ StoredKeys["a"].used # None
    /\ StoredKeys["a"].updated = Some(nops)

\* C17: change_key of an existing entry with a passphrase that derives only
\* other entries, the flag being true, fails with KeyNotInGroup exactly when
\* the chain derived from old_passphrase lacks a group that is on the entry
\* being changed; the stored list, and so the entry's passphrase and groups,
\* is then as it was.
C17_ChangeKeyNeedsSupersetOfGroups ==
    [][(/\ ChangeKeyOfEntry
        /\ last'.op.allow_change_via_other_passphrase
        /\ ~Derives(last'.op.old_passphrase, StoredKeys[ChangedName])
        /\ ChainFromOthers # None) =>
          /\ last'.res = "KeyNotInGroup" <=>
                (\E g \in DOMAIN StoredKeys[ChangedName].groups :
                    g \notin DOMAIN ChainFromOthers[1])
          /\ last'.res = "KeyNotInGroup" => StoredKeys' = StoredKeys]_vars

\* entry `a` carries `root`, `b` does not; change_key of `a` with the
\* passphrase of `b` was refused and `a` is still derived by its own
\* passphrase alone
C17_Witness ==
    /\ LastOp = "change_key"
    /\ last.res = "KeyNotInGroup"
    /\ last.op.name = Some("a")
    /\ last.op.allow_change_via_other_passphrase
    /\ DOMAIN StoredKeys = {"a", "b"}
    /\ GROUP_ROOT \in DOMAIN StoredKeys["a"].groups
    /\ GROUP_ROOT \notin DOMAIN StoredKeys["b"].groups
    /\ Derives(last.op.old_passphrase, StoredKeys["b"])
    /\ ~Derives(last.op.old_passphrase, StoredKeys["a"])
    /\ ~Derives(last.op.new_passphrase, StoredKeys["a"])

\* C18: on an existing list, change_key without a name fails with
\* AnonChangeKeyButMultipleKdfEntries when the list has more than one entry
\* and otherwise edits the single entry (succeeding exactly when
\* old_passphrase derives it, and then leaving it derived by
\* new_passphrase); change_key with a name that is not in the list fails
\* with KeyNotInKdfList; both whatever old_passphrase derives.
C18_ChangeKeyNameChecksFirst ==
    [][(LastOp' = "change_key" /\ kdf_dir # None) =>
          IF last'.op.name = None
          THEN IF Cardinality(DOMAIN StoredKeys) > 1
               THEN last'.res = "AnonChangeKeyButMultipleKdfEntries"
               ELSE /\ last'.res = "Ok" <=>
                          Derives(last'.op.old_passphrase, StoredKeys[ChangedName])
                    /\ last'.res # "Ok" => last'.res = "PassphraseNotInKdfList"
                    /\ last'.res = "Ok" =>
                          /\ DOMAIN StoredKeys' = DOMAIN StoredKeys
                          /\ Derives(last'.op.new_passphrase, StoredKeys'[ChangedName])
                          /\ StoredKeys'[ChangedName].updated = Some(UTC_now)
          ELSE last'.op.name[1] \notin DOMAIN StoredKeys =>
                  last'.res = "KeyNotInKdfList"]_vars

\* no entry of the stored list is derived by the passphrase
DerivesNoEntry(passphrase) ==
    \A n \in DOMAIN StoredKeys : ~Derives(passphrase, StoredKeys[n])

\* change_key without a name on a list of two entries, with a passphrase
\* that derives neither, was refused for the missing name
C18_Witness ==
    /\ LastOp = "change_key"
    /\ last.res = "AnonChangeKeyButMultipleKdfEntries"
    /\ last.op.name = None
    /\ DOMAIN StoredKeys = {"a", "b"}
    /\ DerivesNoEntry(last.op.old_passphrase)

\* C19: add_key on an existing list fails with PassphraseNotInKdfList when
\* old_passphrase derives no entry, else with KeyNameAlreadyInUse when
\* new_name is in the list, and then the stored entries are as they were;
\* otherwise it succeeds, the list gains the one entry new_name, every
\* other entry is as it was, and the new entry carries the groups of the
\* entry old_passphrase matched, new_passphrase unwrapping from it the very
\* key chain old_passphrase derived.
C19_AddKey ==
    [][(LastOp' = "add_key" /\ kdf_dir # None) =>
          /\ last'.res =
                IF try_derive_key(last'.op.old_passphrase, StoredKeys) = None
                THEN "PassphraseNotInKdfList"
                ELSE IF last'.op.new_name \in DOMAIN StoredKeys
                THEN "KeyNameAlreadyInUse"
                ELSE "Ok"
          /\ last'.res # "Ok" => StoredKeys' = StoredKeys
          /\ last'.res = "Ok" =>
                /\ DOMAIN StoredKeys' = DOMAIN StoredKeys \cup {last'.op.new_name}
                /\ Others(StoredKeys', last'.op.new_name) = StoredKeys
                /\ DOMAIN StoredKeys'[last'.op.new_name].groups =
                      DOMAIN StoredKeys[Matching(last'.op.old_passphrase, StoredKeys)[1]].groups
                /\ try_derive_key_single(last'.op.new_passphrase,
                                         StoredKeys'[last'.op.new_name])
                      = try_derive_key(last'.op.old_passphrase, StoredKeys)
                /\ StoredKeys'[last'.op.new_name].updated = None
                /\ StoredKeys'[last'.op.new_name].used = None]_vars

\* add_key made entry `b`, under another passphrase, from entry `a`, which
\* carries every group, and each passphrase derives the same key chain
C19_Witness ==
    /\ LastOp = "add_key"
    /\ last.res = "Ok"
    /\ last.op.new_name = "b"
    /\ last.op.old_passphrase # last.op.new_passphrase
    /\ DOMAIN StoredKeys = {"a", "b"}
    /\ DOMAIN StoredKeys["a"].groups = Groups
    /\ DOMAIN StoredKeys["b"].groups = Groups
    /\ try_derive_key(last.op.new_passphrase, StoredKeys) # None
    /\ try_derive_key(last.op.new_passphrase, StoredKeys)
          = try_derive_key(last.op.old_passphrase, StoredKeys)

\* C20: init_keys succeeds exactly when no KDF list exists.  On success the
\* stored list has exactly one entry, under the given name, which the given
\* passphrase derives, carrying exactly the groups `everyone` and `root`,
\* created at the time of the call, with `updated` and `used` unset.  When a
\* list exists init_keys fails with KdfListAlreadyExists and the stored
\* directory (the list, its entries and what derives them) is as it was.
C20_InitKeys ==
    [][LastOp' = "init_keys" =>
          IF kdf_dir = None
          THEN /\ last'.res = "Ok"
               /\ kdf_dir' # None
               /\ DOMAIN StoredKeys' = {last'.op.key_name}
               /\ Derives(last'.op.passphrase, StoredKeys'[last'.op.key_name])
               /\ DOMAIN StoredKeys'[last'.op.key_name].groups
                     = {GROUP_EVERYONE, GROUP_ROOT}
               /\ StoredKeys'[last'.op.key_name].created = UTC_now
               /\ StoredKeys'[last'.op.key_name].updated = None
               /\ StoredKeys'[last'.op.key_name].used = None
          ELSE /\ last'.res = "KdfListAlreadyExists"
               /\ kdf_dir' = kdf_dir]_vars

\* init_keys with another passphrase was refused on a list of one entry,
\* which its own passphrase still derives
C20_Witness ==
    /\ LastOp = "init_keys"
    /\ last.res = "KdfListAlreadyExists"
    /\ DOMAIN StoredKeys = {last.op.key_name}
    /\ ~Derives(last.op.passphrase, StoredKeys[last.op.key_name])
    /\ \E passphrase \in Passphrases :
          Derives(passphrase, StoredKeys[last.op.key_name])

\* the entry derive_key_chain matches: the first, in name order, that the
\* passphrase derives
MatchedName == Matching(last'.op.passphrase, StoredKeys)[1]

\* C21: a successful derive_key_chain returns the key chain of the entry it
\* matched and sets that entry's `used` to the time of the call, every
\* other field of the entry and every other entry being as it was; and no
\* operation changes the `used` of an entry that is in the list before and
\* after it, but a successful derive_key_chain that matched the entry.
C21_OnlyDeriveKeyChainSetsUsed ==
    [][/\ (LastOp' = "derive_key_chain" /\ last'.res = "Ok") =>
             /\ last'.ret = try_derive_key_single(last'.op.passphrase,
                                                  StoredKeys[MatchedName])
             /\ last'.ret # None
             /\ StoredKeys' = [StoredKeys EXCEPT ![MatchedName].used = Some(UTC_now)]
       /\ \A n \in DOMAIN StoredKeys \cap DOMAIN StoredKeys' :
             StoredKeys'[n].used # StoredKeys[n].used =>
                /\ LastOp' = "derive_key_chain"
                /\ last'.res = "Ok"
                /\ n = MatchedName]_vars

\* the passphrase derives both entries; derive_key_chain marked `a` as used
\* now and left `b` never used
C21_Witness ==
    /\ LastOp = "derive_key_chain"
    /\ last.res = "Ok"
    /\ DOMAIN StoredKeys = {"a", "b"}
    /\ Derives(last.op.passphrase, StoredKeys["a"])
    /\ Derives(last.op.passphrase, StoredKeys["b"])
    /\ StoredKeys["a"].used = Some(nops)
    /\ StoredKeys["b"].used = None
    /\ last.ret = try_derive_key_single(last.op.passphrase, StoredKeys["a"])

\* the elements of a sequence
Range(seq) == {seq[i] : i \in 1..Len(seq)}

\* every internal key some entry of `keys` wraps
WrappedKeys(keys) ==
    UNION {UNION {Unwrapped(keys[n], g) : g \in DOMAIN keys[n].groups} :
           n \in DOMAIN keys}

\* the entry is as it was but for the wraps of its groups
SameButGroups(new, old) == [new EXCEPT !.groups = old.groups] = old

\* C22: create_group on an existing list fails with GroupNameAlreadyInUse
\* when some entry carries one of the names (whatever the passphrase, and
\* so for `everyone` and `root`), else with PassphraseNotInKdfList when the
\* passphrase derives no entry, and then the stored list is as it was;
\* otherwise it succeeds, the entry matched carries its previous groups,
\* each wrapping the key it wrapped, and the named groups, each wrapping a
\* key no entry wrapped before, and every other entry is as it was.
C22_CreateGroup ==
    [][(LastOp' = "create_group" /\ kdf_dir # None) =>
          /\ last'.res =
                IF \E g \in Range(last'.op.names) : Carried(StoredKeys, g)
                THEN "GroupNameAlreadyInUse"
                ELSE IF Matching(last'.op.passphrase, StoredKeys) = <<>>
                THEN "PassphraseNotInKdfList"
                ELSE "Ok"
          /\ last'.res # "Ok" => StoredKeys' = StoredKeys
          /\ last'.res = "Ok" =>
                /\ DOMAIN StoredKeys' = DOMAIN StoredKeys
                /\ Others(StoredKeys', MatchedName) = Others(StoredKeys, MatchedName)
                /\ SameButGroups(StoredKeys'[MatchedName], StoredKeys[MatchedName])
                /\ DOMAIN StoredKeys'[MatchedName].groups =
                      DOMAIN StoredKeys[MatchedName].groups \cup Range(last'.op.names)
                /\ \A g \in DOMAIN StoredKeys[MatchedName].groups :
                      Unwrapped(StoredKeys'[MatchedName], g)
                         = Unwrapped(StoredKeys[MatchedName], g)
                /\ \A g \in Range(last'.op.names) :
                      /\ Cardinality(Unwrapped(StoredKeys'[MatchedName], g)) = 1
                      /\ Unwrapped(StoredKeys'[MatchedName], g)
                            \cap WrappedKeys(StoredKeys) = {}]_vars

\* create_group made "group" on entry `b`, which the passphrase derives, and
\* not on `a`, which it does not derive
C22_Witness ==
    /\ LastOp = "create_group"
    /\ last.res = "Ok"
    /\ last.op.names = <<"group">>
    /\ DOMAIN StoredKeys = {"a", "b"}
    /\ ~Derives(last.op.passphrase, StoredKeys["a"])
    /\ Derives(last.op.passphrase, StoredKeys["b"])
    /\ DOMAIN StoredKeys["a"].groups = {GROUP_EVERYONE, GROUP_ROOT}
    /\ DOMAIN StoredKeys["b"].groups = {GROUP_EVERYONE, "group"}

\* the entry assoc_group adds the groups to: the first, in name order, that
\* dst_passphrase derives
DstName == Matching(last'.op.dst_passphrase, StoredKeys)[1]

\* the key chain assoc_group takes the keys from
SrcChain == try_derive_key(last'.op.src_passphrase, StoredKeys)[1]

\* the name is one the dst entry carries, or has been given by an earlier
\* name of the call
AlreadyInGroup(names, i) ==
    \/ names[i] \in DOMAIN StoredKeys[DstName].groups
    \/ \E j \in 1..(i - 1) : names[j] = names[i]

\* the first name of the call that assoc_group refuses, or 0
FirstRefused(names) ==
    IF \E i \in 1..Len(names) : AlreadyInGroup(names, i) \/ names[i] \notin DOMAIN SrcChain
    THEN CHOOSE i \in 1..Len(names) :
            /\ AlreadyInGroup(names, i) \/ names[i] \notin DOMAIN SrcChain
            /\ \A j \in 1..(i - 1) :
                  ~AlreadyInGroup(names, j) /\ names[j] \in DOMAIN SrcChain
    ELSE 0

\* C23: assoc_group on an existing list fails with PassphraseNotInKdfList
\* when either passphrase derives no entry; else, at the first name that
\* the dst entry carries (or the call has named before) or the src chain
\* lacks, with KeyAlreadyInGroup in the first case and KeyNotInGroup in the
\* second; the stored list is then as it was.  Otherwise it succeeds, the
\* dst entry carries its previous groups and the named ones, each wrapping
\* the key the src chain holds for it, and every other entry, the src
\* entry among them, is as it was.
C23_AssocGroup ==
    [][(LastOp' = "assoc_group" /\ kdf_dir # None) =>
          /\ last'.res =
                IF \/ Matching(last'.op.src_passphrase, StoredKeys) = <<>>
                   \/ Matching(last'.op.dst_passphrase, StoredKeys) = <<>>
                THEN "PassphraseNotInKdfList"
                ELSE IF FirstRefused(last'.op.names) = 0
                THEN "Ok"
                ELSE IF AlreadyInGroup(last'.op.names, FirstRefused(last'.op.names))
                THEN "KeyAlreadyInGroup"
                ELSE "KeyNotInGroup"
          /\ last'.res # "Ok" => StoredKeys' = StoredKeys
          /\ last'.res = "Ok" =>
                /\ DOMAIN StoredKeys' = DOMAIN StoredKeys
                /\ Others(StoredKeys', DstName) = Others(StoredKeys, DstName)
                /\ SameButGroups(StoredKeys'[DstName], StoredKeys[DstName])
                /\ DOMAIN StoredKeys'[DstName].groups =
                      DOMAIN StoredKeys[DstName].groups \cup Range(last'.op.names)
                /\ \A g \in DOMAIN StoredKeys[DstName].groups :
                      Unwrapped(StoredKeys'[DstName], g) = Unwrapped(StoredKeys[DstName], g)
                /\ \A g \in Range(last'.op.names) :
                      Unwrapped(StoredKeys'[DstName], g) = {SrcChain[g]}]_vars

\* assoc_group gave `root` and "group" to entry `b` from entry `a`, and
\* both entries unwrap the same keys for them
C23_Witness ==
    /\ LastOp = "assoc_group"
    /\ last.res = "Ok"
    /\ last.op.names = <<GROUP_ROOT, "group">>
    /\ DOMAIN StoredKeys = {"a", "b"}
    /\ Derives(last.op.src_passphrase, StoredKeys["a"])
    /\ Derives(last.op.dst_passphrase, StoredKeys["b"])
    /\ ~Derives(last.op.dst_passphrase, StoredKeys["a"])
    /\ DOMAIN StoredKeys["b"].groups = Groups
    /\ \A g \in Groups : Unwrapped(StoredKeys["b"], g) = Unwrapped(StoredKeys["a"], g)

\* some name comes twice in the sequence
Repeats(names) == \E i, j \in 1..Len(names) : i # j /\ names[i] = names[j]

\* C24: disassoc_group fails with CannotDisassocGroup when a name is
\* `everyone` (list or no list); else, on an existing list, with
\* KeyNotInKdfList when `key` names no entry, else with KeyNotInGroup when a
\* name is not on that entry (or comes twice), else with
\* WouldDisassocLastKeyFromGroup when no other entry carries one of the
\* names; the stored directory is then as it was.  Otherwise it succeeds,
\* exactly the named groups are gone from that entry, which is otherwise as
\* it was, and every other entry is as it was.
C24_DisassocGroup ==
    [][LastOp' = "disassoc_group" =>
          /\ last'.res =
                IF GROUP_EVERYONE \in Range(last'.op.names)
                THEN "CannotDisassocGroup"
                ELSE IF kdf_dir = None
                THEN "KdfListNotExists"
                ELSE IF last'.op.key \notin DOMAIN StoredKeys
                THEN "KeyNotInKdfList"
                ELSE IF \/ Repeats(last'.op.names)
                        \/ \E g \in Range(last'.op.names) :
                              g \notin DOMAIN StoredKeys[last'.op.key].groups
                THEN "KeyNotInGroup"
                ELSE IF \E g \in Range(last'.op.names) :
                           ~Carried(Others(StoredKeys, last'.op.key), g)
                THEN "WouldDisassocLastKeyFromGroup"
                ELSE "Ok"
          /\ last'.res # "Ok" => kdf_dir' = kdf_dir
          /\ last'.res = "Ok" =>
                StoredKeys' = [StoredKeys EXCEPT ![last'.op.key].groups =
                    [g \in DOMAIN StoredKeys[last'.op.key].groups \ Range(last'.op.names) |->
                        StoredKeys[last'.op.key].groups[g]]]]_vars

\* disassoc_group took `root` and "group" off entry `a`; `b` carries both
C24_Witness ==
    /\ LastOp = "disassoc_group"
    /\ last.res = "Ok"
    /\ last.op.key = "a"
    /\ Range(last.op.names) = {GROUP_ROOT, "group"}
    /\ DOMAIN StoredKeys = {"a", "b"}
    /\ DOMAIN StoredKeys["a"].groups = {GROUP_EVERYONE}
    /\ DOMAIN StoredKeys["b"].groups = Groups

\* C25: destroy_group fails with CannotDestroyGroup when a name is
\* `everyone` or `root` (list or no list); else, on an existing list, with
\* GroupNotInKdfList when no entry carries one of the names (or a name
\* comes twice: it is gone when it is met again); the stored directory is
\* then as it was.  Otherwise it succeeds, the named groups are gone from
\* every entry, no entry is removed, and every entry is otherwise as it was.
C25_DestroyGroup ==
    [][LastOp' = "destroy_group" =>
          /\ last'.res =
                IF Range(last'.op.names) \cap {GROUP_EVERYONE, GROUP_ROOT} # {}
                THEN "CannotDestroyGroup"
                ELSE IF kdf_dir = None
                THEN "KdfListNotExists"
                ELSE IF \/ Repeats(last'.op.names)
                        \/ \E g \in Range(last'.op.names) : ~Carried(StoredKeys, g)
                THEN "GroupNotInKdfList"
                ELSE "Ok"
          /\ last'.res # "Ok" => kdf_dir' = kdf_dir
          /\ last'.res = "Ok" =>
                StoredKeys' = [n \in DOMAIN StoredKeys |->
                    [StoredKeys[n] EXCEPT !.groups =
                        [g \in DOMAIN StoredKeys[n].groups \ Range(last'.op.names) |->
                            StoredKeys[n].groups[g]]]]]_vars

\* destroy_group took "group" off the list: both entries are there, with
\* their built-in groups, and neither carries "group"
C25_Witness ==
    /\ LastOp = "destroy_group"
    /\ last.res = "Ok"
    /\ last.op.names = <<"group">>
    /\ DOMAIN StoredKeys = {"a", "b"}
    /\ DOMAIN StoredKeys["a"].groups = {GROUP_EVERYONE, GROUP_ROOT}
    /\ DOMAIN StoredKeys["b"].groups = {GROUP_EVERYONE}

\* C26: list_keys is read-only.  It makes the one storage call getdir, so
\* starts no transaction, and the stored directory, with its version, is as
\* it was; it returns the empty list when no KDF list exists, and otherwise
\* one KeyInfo per entry of the stored list, with the entry's name,
\* algorithm, timestamps and group names.
C26_ListKeysReadOnly ==
    [][LastOp' = "list_keys" =>
          /\ last'.res = "Ok"
          /\ last'.calls = <<"getdir">>
          /\ kdf_dir' = kdf_dir
          /\ Len(last'.ret[1]) = Cardinality(DOMAIN StoredKeys)
          /\ \A n \in DOMAIN StoredKeys :
                \E i \in 1..Len(last'.ret[1]) :
                   /\ last'.ret[1][i].name = n
                   /\ last'.ret[1][i].algorithm = StoredKeys[n].algorithm
                   /\ last'.ret[1][i].created = StoredKeys[n].created
                   /\ last'.ret[1][i].updated = StoredKeys[n].updated
                   /\ last'.ret[1][i].used = StoredKeys[n].used
                   /\ Range(last'.ret[1][i].groups) = DOMAIN StoredKeys[n].groups
                   /\ Len(last'.ret[1][i].groups)
                         = Cardinality(DOMAIN StoredKeys[n].groups)]_vars

\* list_keys returned the two entries of the stored list
C26_Witness ==
    /\ LastOp = "list_keys"
    /\ DOMAIN StoredKeys = {"a", "b"}
    /\ Len(last.ret[1]) = 2
    /\ last.ret[1][1].name = "a"
    /\ last.ret[1][2].name = "b"
    /\ Range(last.ret[1][2].groups) = DOMAIN StoredKeys["b"].groups

----------------------------------------------------------------------------
(* Claims about the storage before init_keys, checked under Spec *)

\* the operations that go through edit_kdflist
EditOps ==
    {"add_key", "change_key", "del_key", "derive_key_chain", "create_group",
     "assoc_group", "disassoc_group", "destroy_group"}

\* the call is refused for a built-in name before any transaction
RefusedForBuiltin(call) ==
    \/ call.op.op = "disassoc_group" /\ call.res = "CannotDisassocGroup"
    \/ call.op.op = "destroy_group" /\ call.res = "CannotDestroyGroup"

\* C27: a KDF list, once stored, stays (so "no list is stored" is "init_keys
\* has never succeeded"); while none is stored every operation that goes
\* through edit_kdflist fails with KdfListNotExists, unless disassoc_group
\* or destroy_group refuses a built-in name first, and stores no list; only
\* a successful init_keys stores one.
C27_NoListBeforeInitKeys ==
    [][/\ kdf_dir # None => kdf_dir' # None
       /\ (kdf_dir = None /\ LastOp' \in EditOps) =>
             /\ last'.res = "KdfListNotExists" \/ RefusedForBuiltin(last')
             /\ RefusedForBuiltin(last') =>
                   Range(last'.op.names) \cap {GROUP_EVERYONE, GROUP_ROOT} # {}
             /\ kdf_dir' = None
       /\ (kdf_dir = None /\ kdf_dir' # None) =>
             LastOp' = "init_keys" /\ last'.res = "Ok"]_vars

\* three operations were called and the last, destroy_group of a group
\* that is not built in, failed for the missing list; there is still none
C27_Witness ==
    /\ nops = MaxOps
    /\ kdf_dir = None
    /\ LastOp = "destroy_group"
    /\ last.op.names = <<"group">>
    /\ last.res = "KdfListNotExists"
    /\ last.calls = <<"start_tx", "getdir", "abort">>

----------------------------------------------------------------------------
(* Claims about the BlockList stream_to_blocks returns, checked under      *)
(* SpecBlock                                                               *)

s2bReturnedOk == s2b_pc = "done" /\ s2b_res = "Ok"

\* the number of blocks of block_size bytes, the last maybe shorter, that
\* the source makes
BlockCount == (Len(source) + block_size - 1) \div block_size

\* C28: the BlockList stream_to_blocks returns is well formed.  `blocks`
\* holds, in source order, the HMAC of each block of the source, which are
\* the hashes the sink was called with, in the order of the calls; `total`
\* is the HMAC of the concatenation of `blocks`; `size` is the number of
\* bytes read; and `blocks` is empty exactly when the input was.
C28_BlockListWellFormed ==
    s2bReturnedOk =>
        /\ Len(blocklist.blocks) = BlockCount
        /\ \A i \in 1..Len(blocklist.blocks) :
              blocklist.blocks[i] = Hmac(secret, BlockBytes(i))
        /\ blocklist.blocks = [i \in 1..Len(sunk) |-> sunk[i].hash]
        /\ blocklist.total = TotalOf(secret, blocklist.blocks)
        /\ blocklist.size = Len(source)
        /\ rest = <<>>
        /\ blocklist.blocks = <<>> <=> source = <<>>

\* four bytes in blocks of three: two blocks, the second of one byte
C28_Witness ==
    /\ s2bReturnedOk
    /\ Len(source) = 4
    /\ block_size = 3
    /\ Len(blocklist.blocks) = 2
    /\ blocklist.blocks[2] = Hmac(secret, <<source[4]>>)
    /\ blocklist.size = 4

\* C29: stream_to_blocks never emits an empty block: a block is hashed and
\* handed to the sink only with at least one byte in it, so no sink call
\* carries the HMAC of no bytes.  On empty input the sink is never called
\* and the result is blocks = [], size = 0, total = HMAC(secret, "").  On an
\* input whose length is a multiple of block_size the sink is called
\* |S| / block_size times, each time for a full block, and the call returns
\* from a read that found nothing for the next block.
C29_NoEmptyBlock ==
    /\ s2b_pc = "emit" => off >= 1
    /\ \A i \in 1..Len(sunk) : sunk[i].hash # Hmac(secret, <<>>)
    /\ (s2bReturnedOk /\ source = <<>>) =>
          /\ sunk = <<>>
          /\ blocklist.blocks = <<>>
          /\ blocklist.size = 0
          /\ blocklist.total = Hmac(secret, <<>>)
    /\ (s2bReturnedOk /\ Len(source) % block_size = 0) =>
          /\ Len(sunk) = Len(source) \div block_size
          /\ \A i \in 1..Len(sunk) :
                /\ Len(BlockBytes(i)) = block_size
                /\ sunk[i].hash = Hmac(secret, BlockBytes(i))
          /\ off = 0
          /\ rest = <<>>

\* four bytes in blocks of two: two sink calls, then the read that found
\* nothing
C29_Witness ==
    /\ s2bReturnedOk
    /\ Len(source) = 4
    /\ block_size = 2
    /\ Len(sunk) = 2
    /\ off = 0

----------------------------------------------------------------------------
(* Claims about the cipher of directory versions, checked under SpecVer *)

\* C30: version cipher round trip.  Whenever decrypt_dir_ver has run on the
\* HashId encrypt_dir_ver returned for a directory id, a version and a
\* master key, with the same directory id and master key, it returned that
\* version.
C30_VersionRoundTrip ==
    (fn_ret # None /\ fn_ret[1].fn = "decrypt_dir_ver") =>
        fn_ret[1].value = fn_args.ver

\* decrypt_dir_ver has returned the largest version, encrypted for a
\* directory id with a nonzero IV under a nonzero key
C30_Witness ==
    /\ fn_ret # None
    /\ fn_ret[1].fn = "decrypt_dir_ver"
    /\ fn_ret[1].value = MaxVer
    /\ fn_args.ver = MaxVer
    /\ dir_ver_iv(fn_args.dir) # dir_ver_iv(HashId_default)
    /\ fn_args.master # HashId_default

\* C32: per-directory version ciphertexts.  Whenever encrypt_dir_ver has
\* returned for a directory id, a version and a master key, its result
\* differs from the result for every other directory id with the same
\* version and master key.
C32_DirectoriesGiveDifferentCiphertexts ==
    Returned("encrypt_dir_ver") =>
        \A dir \in DirIds \ {fn_args.dir} :
            encrypt_dir_ver(dir, fn_args.ver, fn_args.master) # fn_ret[1].value

----------------------------------------------------------------------------
(* Claims about decrypt_dir_ver on any HashId, checked under SpecGarbage *)

\* the cleartext whose encryption for the directory and the key is the
\* ciphertext decrypt_dir_ver was handed
RecoveredCleartext ==
    CHOOSE cleartext \in
        {cbc_decrypt(dir_key(fn_args.master), dir_ver_iv(fn_args.dir),
                     fn_args.ciphertext)} :
        cbc_encrypt(dir_key(fn_args.master), dir_ver_iv(fn_args.dir),
                    cleartext) = fn_args.ciphertext

\* C31: decrypt_dir_ver never fails.  Whenever it has run on a HashId, it
\* returned 0 if a byte in positions 8..32 of the cleartext that encrypts
\* to that HashId is not zero, and the little-endian value of bytes 0..8
\* otherwise; a result other than 0 is a version whose encryption for this
\* directory and key is that HashId, and the all-zero HashId gives 0.
C31_InvalidCiphertextDecodesToZero ==
    Returned("decrypt_dir_ver") =>
        /\ fn_ret[1].value =
              IF \E i \in 9..HashIdLen : RecoveredCleartext[i] # 0 THEN 0
              ELSE le_value(SubSeq(RecoveredCleartext, 1, 8))
        /\ \/ fn_ret[1].value = 0
           \/ fn_args.ciphertext =
                 encrypt_dir_ver(fn_args.dir, fn_ret[1].value, fn_args.master)
        /\ fn_args.ciphertext = HashId_default => fn_ret[1].value = 0

\* decrypt_dir_ver has returned 0 for a HashId that is neither all zero nor
\* the encryption of version 0, and whose first 8 cleartext bytes are not 0
C31_Witness ==
    /\ Returned("decrypt_dir_ver")
    /\ fn_ret[1].value = 0
    /\ fn_args.ciphertext # HashId_default
    /\ fn_args.ciphertext # encrypt_dir_ver(fn_args.dir, 0, fn_args.master)
    /\ le_value(SubSeq(RecoveredCleartext, 1, 8)) # 0

----------------------------------------------------------------------------
(* Claims about the cipher of objects, checked under SpecObj *)

\* C33: object cipher round trip.  Whenever decrypt_obj has run on what
\* encrypt_obj wrote for an object and a master key, with the same master
\* key, it returned Ok and wrote the bytes of the object.
C33_ObjectRoundTrip ==
    Returned("decrypt_obj") =>
        /\ fn_ret[1].value.res = "Ok"
        /\ fn_ret[1].value.dst = fn_args.data

\* decrypt_obj has returned an object that fills the staging buffer exactly
\* and ends in a byte that reads as padding
C33_Witness ==
    /\ Returned("decrypt_obj")
    /\ Len(fn_ret[1].value.dst) = SrcBufLen
    /\ fn_ret[1].value.dst[SrcBufLen] = 1
    /\ fn_args.master # HashId_default

----------------------------------------------------------------------------
(* Claims about the cipher of directories, checked under SpecDir *)

RECURSIVE Concat(_)
Concat(seqs) == IF Len(seqs) = 0 THEN << >> ELSE Head(seqs) \o Concat(Tail(seqs))

\* C34: directory cipher round trip with appends.  Whenever
\* decrypt_whole_dir has run on the ciphertext encrypt_whole_dir wrote for
\* the first chunk followed by what encrypt_append_dir wrote for each
\* further chunk under the session key and the IV dir_append_iv took from
\* the ciphertext so far, and every chunk's length is a positive multiple of
\* 16, it returned Ok, wrote the chunks one after the other, and returned
\* the session key encrypt_whole_dir returned.
C34_DirRoundTripWithAppends ==
    (/\ Returned("decrypt_whole_dir")
     /\ \A i \in DOMAIN fn_args.chunks :
           Len(fn_args.chunks[i]) > 0 /\ Len(fn_args.chunks[i]) % BLKSZ = 0)
    => /\ fn_ret[1].value.res = "Ok"
       /\ fn_ret[1].value.dst = Concat(fn_args.chunks)
       /\ fn_ret[1].value.key = fn_ret[1].sk

\* decrypt_whole_dir has returned three chunks that were written one by
\* one, the second longer than the staging buffer
C34_Witness ==
    /\ Returned("decrypt_whole_dir")
    /\ Len(fn_args.chunks) = 3
    /\ Len(fn_args.chunks[1]) = BLKSZ
    /\ Len(fn_args.chunks[2]) > SrcBufLen
    /\ Len(fn_args.chunks[3]) = BLKSZ
    /\ fn_ret[1].value.dst = Concat(fn_args.chunks)
    /\ fn_args.master # HashId_default

----------------------------------------------------------------------------
(* Claims about the group `everyone`, checked under Spec *)

\* C35: `everyone` stays on every entry.  After every operation every entry
\* of the stored list carries `everyone`, so none has an empty group set:
\* an entry that init_keys or add_key made carries it, change_key leaves it
\* on the entry it replaces, disassoc_group and destroy_group naming it fail
\* with CannotDisassocGroup and CannotDestroyGroup, and create_group naming
\* it fails.
C35_EveryoneStaysOnEveryEntry ==
    [][/\ \A n \in DOMAIN StoredKeys' :
             /\ DOMAIN StoredKeys'[n].groups # {}
             /\ GROUP_EVERYONE \in DOMAIN StoredKeys'[n].groups
       /\ (LastOp' = "disassoc_group" /\ GROUP_EVERYONE \in Range(last'.op.names))
             => last'.res = "CannotDisassocGroup"
       /\ (LastOp' = "destroy_group" /\ GROUP_EVERYONE \in Range(last'.op.names))
             => last'.res = "CannotDestroyGroup"
       /\ (LastOp' = "create_group" /\ GROUP_EVERYONE \in Range(last'.op.names))
             => last'.res = IF kdf_dir = None THEN "KdfListNotExists"
                            ELSE "GroupNameAlreadyInUse"
       /\ (LastOp' = "init_keys" /\ last'.res = "Ok")
             => GROUP_EVERYONE \in DOMAIN StoredKeys'[last'.op.key_name].groups
       /\ (LastOp' = "add_key" /\ last'.res = "Ok")
             => GROUP_EVERYONE \in DOMAIN StoredKeys'[last'.op.new_name].groups
       /\ (LastOp' = "change_key" /\ last'.res = "Ok")
             => GROUP_EVERYONE \in DOMAIN StoredKeys'[ChangedName].groups]_vars

\* destroy_group naming `everyone` was refused on a list of two entries
\* that carry it
C35_Witness ==
    /\ LastOp = "destroy_group"
    /\ GROUP_EVERYONE \in Range(last.op.names)
    /\ last.res = "CannotDestroyGroup"
    /\ Cardinality(DOMAIN StoredKeys) = 2
    /\ \A n \in DOMAIN StoredKeys : GROUP_EVERYONE \in DOMAIN StoredKeys[n].groups

----------------------------------------------------------------------------
(* Claims about the storage calls of one operation, checked under          *)
(* SpecTxCalls                                                             *)

TxClosers ==
    {k \in 1..Len(tx_calls) : tx_calls[k].call \in {"commit", "abort"}}

\* the position of the start_tx of the transaction call number k is in
TxStartOf(k) == CHOOSE s \in TxStarts : s <= k /\ \A t \in TxStarts : t <= k => t <= s

\* the position after the last call of the transaction started at s
TxEndOf(s) ==
    IF \E t \in TxStarts : t > s
    THEN CHOOSE t \in TxStarts : t > s /\ \A u \in TxStarts : u > s => t <= u
    ELSE Len(tx_calls) + 1

\* the calls that close the transaction started at s
TxClosersOf(s) == {k \in TxClosers : s < k /\ k < TxEndOf(s)}

\* every start_tx that succeeded is followed by exactly one of commit and
\* abort, the last call before the next start_tx or the return; a start_tx
\* that failed is followed by the return
TxBracketed ==
    \A s \in TxStarts :
        IF tx_calls[s].result = "Ok"
        THEN /\ Cardinality(TxClosersOf(s)) <= 1
             /\ (TxEndOf(s) <= Len(tx_calls) \/ tx_pc = "done")
                   => TxClosersOf(s) = {TxEndOf(s) - 1}
             /\ (TxClosersOf(s) # {} /\ TxEndOf(s) > Len(tx_calls))
                   => tx_pc \in {"start_tx", "done"}
        ELSE s = Len(tx_calls) /\ tx_pc = "done"

\* rmdir and mkdir are issued in a transaction that was started and is not
\* closed yet
TxWritesInsideTx ==
    \A k \in 1..Len(tx_calls) :
        tx_calls[k].call \in {"rmdir", "mkdir"} =>
            /\ \E s \in TxStarts : s < k
            /\ tx_calls[TxStartOf(k)].result = "Ok"
            /\ \A c \in TxClosersOf(TxStartOf(k)) : k < c

\* the rmdir names the version and length getdir loaded in this
\* transaction and comes straight before the mkdir of a new version;
\* init_keys issues no rmdir, and its mkdir follows a getdir that found no
\* list
TxRmdirBeforeMkdir ==
    \A k \in 1..Len(tx_calls) :
        /\ tx_calls[k].call = "rmdir" =>
              /\ fn_args.op = "edit_kdflist"
              /\ k = TxStartOf(k) + 2
              /\ tx_calls[k - 1].call = "getdir"
              /\ tx_calls[k - 1].result = "Some"
              /\ tx_calls[k].ver = tx_calls[k - 1].ver
              /\ tx_calls[k].len = tx_calls[k - 1].len
        /\ tx_calls[k].call = "mkdir" =>
              IF fn_args.op = "init_keys"
              THEN /\ k = TxStartOf(k) + 2
                   /\ tx_calls[k - 1] = StorageCall("getdir", "None")
              ELSE /\ k = TxStartOf(k) + 3
                   /\ tx_calls[k - 1].call = "rmdir"
                   /\ tx_calls[k - 1].result = "Ok"
                   /\ tx_calls[k].ver # tx_calls[k - 1].ver

\* C36 as the spec states it: transaction bracketing, with every rmdir and
\* mkdir issued in a transaction that a commit closes.
C36_WritesBetweenStartAndCommit ==
    /\ TxBracketed
    /\ TxWritesInsideTx
    /\ TxRmdirBeforeMkdir
    /\ \A k \in 1..Len(tx_calls) :
          tx_calls[k].call \in {"rmdir", "mkdir"} =>
             \A c \in TxClosersOf(TxStartOf(k)) : tx_calls[c].call = "commit"

\* C36, amended: transaction bracketing.  Every start_tx that succeeded is
\* followed by exactly one of commit and abort before the next start_tx or
\* the return; rmdir and mkdir are issued only in a transaction that was
\* started and is not closed yet, the rmdir of the loaded version and
\* length straight before the mkdir of the new version (init_keys: mkdir
\* alone); and the transaction they were issued in is closed by commit
\* when the mkdir returned Ok, and by abort when the rmdir or the mkdir
\* returned an error.
C36_WritesBetweenStartAndCommitOrAbort ==
    /\ TxBracketed
    /\ TxWritesInsideTx
    /\ TxRmdirBeforeMkdir
    /\ \A k \in 1..Len(tx_calls) :
          tx_calls[k].call \in {"rmdir", "mkdir"} =>
             \A c \in TxClosersOf(TxStartOf(k)) :
                tx_calls[c].call =
                   IF tx_calls[c - 1].call = "mkdir" /\ tx_calls[c - 1].result = "Ok"
                   THEN "commit" ELSE "abort"

\* an edit returned after a conflict and a second transaction in which
\* rmdir succeeded, mkdir failed and abort closed the transaction
C36_Witness ==
    /\ tx_pc = "done"
    /\ fn_args.op = "edit_kdflist"
    /\ Cardinality(TxStarts) = 2
    /\ Cardinality(TxConflicts) = 1
    /\ Len(tx_calls) >= 4
    /\ tx_calls[Len(tx_calls)].call = "abort"
    /\ tx_calls[Len(tx_calls) - 1].call = "mkdir"
    /\ tx_calls[Len(tx_calls) - 2].call = "rmdir"
    /\ tx_calls[Len(tx_calls) - 2].result = "Ok"

----------------------------------------------------------------------------
(* Claims about the failures of stream_to_blocks and blocks_to_stream,     *)
(* checked under SpecBlock                                                 *)

\* the last call of the sink returned an error
SinkFailed == sunk # <<>> /\ "err" \in DOMAIN sunk[Len(sunk)]

\* C37: an error of the sink is propagated at once.  Once block_out has
\* returned an error, stream_to_blocks has returned that error and no
\* BlockList, the failing call is the last call of the sink, and from then
\* on nothing is read from the source and the sink is not called.
C37_SinkErrorPropagated ==
    [][/\ SinkFailed' =>
             /\ s2b_pc' = "done"
             /\ s2b_res' = sunk'[Len(sunk')].err
             /\ blocklist' = NoBlockList
             /\ b2s_pc' = "idle"
             /\ \A i \in 1..(Len(sunk') - 1) : "err" \notin DOMAIN sunk'[i]
             /\ Len(blocks') = Len(sunk') - 1
       /\ SinkFailed =>
             /\ rest' = rest
             /\ block_data' = block_data
             /\ off' = off
             /\ sunk' = sunk]_vars

\* the sink failed on the second block while bytes of the source were unread
C37_Witness ==
    /\ SinkFailed
    /\ Len(sunk) = 2
    /\ rest # <<>>
    /\ s2b_res = "PermissionDenied"
    /\ blocklist = NoBlockList

----------------------------------------------------------------------------
(* Claims about the order of writing and verifying in blocks_to_stream,    *)
(* checked under SpecTamper                                                *)

\* the stored bytes of the block at position j of input.blocks
Fetched(j) == store[blocklist.blocks[j]]

\* the recomputed HMAC of the block at position j differs from its HashId
BadBlock(j) == Hmac(secret, Fetched(j)) # blocklist.blocks[j]

\* the stored bytes of the first n blocks of input.blocks, in list order
RECURSIVE Written(_)
Written(n) == IF n = 0 THEN <<>> ELSE Written(n - 1) \o Fetched(n)

\* positions before idx were fetched, streamed and found good
StreamedBefore(n) ==
    \A j \in 1..(n - 1) :
       /\ blocklist.blocks[j] \in DOMAIN store
       /\ ~BadBlock(j)

\* C38: blocks_to_stream writes in list order and verifies a block only
\* after streaming it.  While the loop runs the output holds the blocks
\* before the current one, in list order, all of them good, followed by
\* what was read of the current one.  When the call has failed with
\* InvalidHmac past the sanity check, the block at idx is the first bad
\* one, the output holds all bytes of the blocks up to and including it,
\* and nothing of a later block.  When the call returned Ok no block was
\* bad and the output holds every block.
C38_VerifiedAfterStreaming ==
    /\ b2s_pc = "fetch" =>
          /\ StreamedBefore(idx)
          /\ output = Written(idx - 1)
    /\ b2s_pc = "read" =>
          /\ StreamedBefore(idx)
          /\ output \o reader = Written(idx)
    /\ (b2s_pc = "done" /\ b2s_res = "InvalidHmac" /\ ~TotalMismatch) =>
          /\ idx \in 1..Len(blocklist.blocks)
          /\ StreamedBefore(idx)
          /\ blocklist.blocks[idx] \in DOMAIN store
          /\ BadBlock(idx)
          /\ output = Written(idx)
          /\ reader = <<>>
    /\ (b2s_pc = "done" /\ b2s_res = "Ok") =>
          /\ StreamedBefore(Len(blocklist.blocks) + 1)
          /\ output = Written(Len(blocklist.blocks))

\* the first of two blocks was bad: its bytes were written, the call failed
\* and nothing of the second block was written
C38_Witness ==
    /\ b2s_pc = "done"
    /\ b2s_res = "InvalidHmac"
    /\ ~TotalMismatch
    /\ Len(blocklist.blocks) = 2
    /\ idx = 1
    /\ BadBlock(1)
    /\ Fetched(1) # <<>>
    /\ output = Fetched(1)
    /\ Fetched(2) # <<>>

----------------------------------------------------------------------------
(* Claims about the reads of stream_to_blocks, checked under SpecBlock *)

\* the BlockList of a source that delivers all it can in every read: block k
\* covers the bytes k * block_size up to (k + 1) * block_size or the end
WholeReadBlocks == [k \in 1..BlockCount |-> Hmac(secret, BlockBytes(k))]

WholeReadBlockList ==
    [total  |-> TotalOf(secret, WholeReadBlocks),
     blocks |-> WholeReadBlocks,
     size   |-> Len(source)]

\* C39: block boundaries do not depend on how the source fragments its
\* reads.  Whatever short reads and interruptions the source has answered
\* with, an interrupted read advances nothing; the buffer holds the bytes
\* of the source that follow the blocks emitted so far, and a block is
\* emitted only when the buffer is full or the input is at its end; the
\* BlockList returned is the one of a source read whole; and a read that
\* fails otherwise ends the call with an I/O error and no BlockList.
C39_ReadFragmentsDoNotMoveBoundaries ==
    [][/\ ("Interrupted" \notin read_kinds /\ "Interrupted" \in read_kinds') =>
             UNCHANGED <<rest, off, block_data, blocks, size, sunk, s2b_pc,
                         s2b_res>>
       /\ s2b_pc' \in {"fill", "emit"} =>
             /\ size' = Min(Len(blocks') * block_size', Len(source'))
             /\ SubSeq(block_data', 1, off') =
                   SubSeq(source', size' + 1, size' + off')
             /\ rest' = SubSeq(source', size' + off' + 1, Len(source'))
       /\ s2b_pc' = "emit" => (off' = block_size' \/ rest' = <<>>)
       /\ (s2b_pc' = "done" /\ s2b_res' = "Ok") =>
             blocklist' = WholeReadBlockList'
       /\ s2b_res' = "Io" =>
             /\ s2b_pc' = "done"
             /\ blocklist' = NoBlockList
             /\ ~SinkFailed']_vars

\* four bytes in blocks of three came through short reads and an
\* interruption, and made the two blocks of a whole read
C39_Witness ==
    /\ s2bReturnedOk
    /\ read_kinds = {"Fragment", "Interrupted"}
    /\ Len(source) = 4
    /\ block_size = 3
    /\ blocklist = WholeReadBlockList
    /\ Len(blocklist.blocks) = 2

----------------------------------------------------------------------------
(* Claims about read_passphrase, checked under SpecPass *)

Newlines == {LF, CR}

\* C40: read_passphrase strips every trailing LF and CR byte from the value
\* it read, leaves all other bytes untouched, and fails when nothing is
\* left.  Whenever it has returned on a value read, either it returned Ok
\* with a non-empty prefix of the value that does not end in LF or CR and
\* that only LF and CR bytes follow in the value, or it failed and the value
\* read holds nothing but LF and CR bytes.
C40_TrailingNewlinesStripped ==
    (Returned("read_passphrase") /\ fn_args.impl.res = "Ok") =>
        LET read == fn_args.impl.data
            ret  == fn_ret[1].value
        IN  IF ret.res = "Ok"
            THEN /\ ret.data # <<>>
                 /\ Len(ret.data) <= Len(read)
                 /\ ret.data = SubSeq(read, 1, Len(ret.data))
                 /\ ret.data[Len(ret.data)] \notin Newlines
                 /\ \A i \in (Len(ret.data) + 1)..Len(read) :
                       read[i] \in Newlines
            ELSE /\ ret.err = "Password is empty"
                 /\ \A i \in 1..Len(read) : read[i] \in Newlines

\* "h2\r\n" was read and "h2" returned
C40_Witness ==
    /\ Returned("read_passphrase")
    /\ fn_args.impl = [res |-> "Ok", data |-> <<104, 50, CR, LF>>]
    /\ fn_ret[1].value.res = "Ok"
    /\ fn_ret[1].value.data = <<104, 50>>

====
